---------------------------- MODULE Spec2Model ----------------------------
(***************************************************************************)
(* A model of scrabble.rs: letters and patterns (src/letter, src/word),    *)
(* the generic prefix-tree algorithms (src/trie/node_trait.rs) and the     *)
(* owned tree (src/trie_ptr/mod.rs).                                       *)
(*                                                                         *)
(* Option<T> is modelled as a set with at most one element: {} is None and *)
(* {x} is Some(x).  A node is a record [is_end, children], children being  *)
(* a function from the indices of the filled slots to the child nodes.     *)
(***************************************************************************)
EXTENDS Integers, Sequences, FiniteSets, TLC

(***************************************************************************)
(* Bounds of the model.  The program's alphabet has 26 symbols; the tree   *)
(* specifications use the first NumSymbols of them and the pattern         *)
(* specifications the first AlphabetSize of them.                          *)
(***************************************************************************)
NumSymbols == 2

MaxNodes == 4

AlphabetSize == 3

MaxTextLen == 5

MaxWordLen == 2

(***************************************************************************)
(* Characters.                                                             *)
(***************************************************************************)
Alpha ==
  << "a", "b", "c", "d", "e", "f", "g", "h", "i", "j", "k", "l", "m",
     "n", "o", "p", "q", "r", "s", "t", "u", "v", "w", "x", "y", "z" >>

Lowercase == { Alpha[i] : i \in 1..26 }

IndexOf == [ c \in Lowercase |-> CHOOSE i \in 0..25 : Alpha[i + 1] = c ]

\* word::into_index, for the characters 'a'..'z'
into_index(c) == IndexOf[c]

\* word::from_index
from_index(i) == Alpha[i + 1]

\* the indices and the characters the tree specifications range over
Symbols == 0..(NumSymbols - 1)

\* the range 'a'..='z' of the generic algorithms, as a sequence
CharRange == [ i \in 1..NumSymbols |-> from_index(i - 1) ]

(***************************************************************************)
(* Letters and pattern texts.  A Letter ([bool; 26]) is the set of the     *)
(* indices whose flag is set; a text is a sequence of characters.  The     *)
(* pattern specifications use the alphabet 'a'..LastChar, LastChar         *)
(* standing for 'z'.                                                       *)
(***************************************************************************)
LastIndex == AlphabetSize - 1

LastChar == from_index(LastIndex)

\* Letter::all
all == 0..LastIndex

Letters == SUBSET all

\* the characters of the input texts: the alphabet, the four punctuation
\* characters of the grammar and one character outside it
TextChars == { from_index(i) : i \in all } \cup { ".", "[", "]", "-", "5" }

Texts == UNION { [ 1..n -> TextChars ] : n \in 0..MaxTextLen }

Words == UNION { [ 1..n -> Letters ] : n \in 0..MaxWordLen }

Digits == << "0", "1", "2", "3", "4", "5", "6", "7", "8", "9" >>

RECURSIVE to_string(_)
\* usize::to_string: the decimal digits of s
to_string(s) ==
  IF s < 10 THEN << Digits[s + 1] >> ELSE to_string(s \div 10) \o << Digits[(s % 10) + 1] >>

RECURSIVE Concat(_)
\* collect::<String>() over a sequence of strings
Concat(strs) == IF strs = << >> THEN << >> ELSE Head(strs) \o Concat(Tail(strs))

\* the indices of a Letter in ascending order (Letter::indices)
RECURSIVE indices(_)
indices(letter) ==
  IF letter = {} THEN << >>
  ELSE LET m == CHOOSE i \in letter : \A j \in letter : i <= j
       IN  << m >> \o indices(letter \ { m })

(***************************************************************************)
(* letter/parse.rs and word/parse.rs: the nom parsers.  An IResult is      *)
(* [ok, rest, val]: on success rest is the remaining input, on failure it  *)
(* is the input the error carries.                                         *)
(***************************************************************************)
Ok(rest, val) == [ ok |-> TRUE, rest |-> rest, val |-> val ]

Err(input) == [ ok |-> FALSE, rest |-> input, val |-> << >> ]

\* verify(anychar, char::is_ascii_lowercase)
parse_lower_char(input) ==
  IF input # << >> /\ Head(input) \in Lowercase
    THEN Ok(Tail(input), << Head(input) >>)
    ELSE Err(input)

\* char(c) and tag(c) for a one-character tag
parse_char(c, input) ==
  IF input # << >> /\ Head(input) = c THEN Ok(Tail(input), << c >>) ELSE Err(input)

\* opt(parser)(input), parsed the result of parser(input): the value is an
\* Option, a sequence of at most one element
opt(parsed, input) == IF parsed.ok THEN parsed ELSE Ok(input, << >>)

\* alt((first, second))
alt(first, second) == IF first.ok THEN first ELSE second

\* Option::unwrap_or
unwrap_or(option, default) == IF option = << >> THEN default ELSE option[1]

\* the indices of the characters of start..=end
range_indices(start, end) ==
  { i \in 0..25 : into_index(start) <= i /\ i <= into_index(end) }

\* parse_dot_letter after its char('.')
dot_letter(dot) == IF dot.ok THEN Ok(dot.rest, << all >>) ELSE dot

parse_dot_letter(input) == dot_letter(parse_char(".", input))

\* Letter::try_from_alpha mapped over the character parsed
char_letter(ch) == IF ch.ok THEN Ok(ch.rest, << { into_index(ch.val[1]) } >>) ELSE ch

\* map_res(parse_lower_char, Letter::try_from_alpha)
parse_char_letter(input) == char_letter(parse_lower_char(input))

\* parse_single_char_range after its parse_lower_char
single_char_range(ch) ==
  IF ch.ok THEN Ok(ch.rest, << range_indices(ch.val[1], ch.val[1]) >>) ELSE ch

parse_single_char_range(input) == single_char_range(parse_lower_char(input))

\* parse_multi_char_range after its second opt(parse_lower_char)
multi_char_range_end(start, end) ==
  Ok(end.rest, << range_indices(unwrap_or(start.val, "a"), unwrap_or(end.val, LastChar)) >>)

\* parse_multi_char_range after its tag("-")
multi_char_range_dash(start, dash) ==
  IF dash.ok
    THEN multi_char_range_end(start, opt(parse_lower_char(dash.rest), dash.rest))
    ELSE dash

\* parse_multi_char_range after its first opt(parse_lower_char)
multi_char_range_start(start) == multi_char_range_dash(start, parse_char("-", start.rest))

parse_multi_char_range(input) ==
  multi_char_range_start(opt(parse_lower_char(input), input))

\* the alternatives tried in the other order
parse_char_range_single_first(input) ==
  alt(parse_single_char_range(input), parse_multi_char_range(input))

\* alt((parse_multi_char_range, parse_single_char_range))
parse_char_range(input) ==
  alt(parse_multi_char_range(input), parse_single_char_range(input))

RECURSIVE many_char_range(_, _)
\* one turn of the loop of many1, item the result of parse_char_range(input)
many_char_range_turn(item, input, acc) ==
  IF item.ok THEN many_char_range(item.rest, acc \o item.val) ELSE Ok(input, acc)

\* the loop of many1 after its first item: acc is the ranges parsed so far
many_char_range(input, acc) == many_char_range_turn(parse_char_range(input), input, acc)

\* many1(parse_char_range) after its first item
many1_char_range(first) ==
  IF first.ok THEN many_char_range(first.rest, first.val) ELSE first

\* Letter::try_from_iter over the flattened ranges
group_letter(ranges) ==
  IF ranges.ok
    THEN Ok(ranges.rest, << UNION { ranges.val[k] : k \in 1..Len(ranges.val) } >>)
    ELSE ranges

\* map_res(many1(parse_char_range), Letter::try_from_iter)
parse_group_letter(input) == group_letter(many1_char_range(parse_char_range(input)))

\* delimited after its closing char(']')
bracketed_close(group, close) == IF close.ok THEN Ok(close.rest, group.val) ELSE close

\* delimited after parse_group_letter
bracketed_group(group) ==
  IF group.ok THEN bracketed_close(group, parse_char("]", group.rest)) ELSE group

\* delimited after its opening char('[')
bracketed_open(open) == IF open.ok THEN bracketed_group(parse_group_letter(open.rest)) ELSE open

\* delimited(char('['), parse_group_letter, char(']'))
parse_bracketed(input) == bracketed_open(parse_char("[", input))

\* alt((parse_dot_letter, parse_char_letter, delimited(...)))
parse_letter(input) ==
  alt(parse_dot_letter(input), alt(parse_char_letter(input), parse_bracketed(input)))

RECURSIVE many_letter(_, _)
\* one turn of the loop of many0, item the result of parse_letter(input)
many_letter_turn(item, input, acc) ==
  IF item.ok THEN many_letter(item.rest, acc \o item.val) ELSE Ok(input, acc)

\* many0(parse_letter)
many_letter(input, acc) == many_letter_turn(parse_letter(input), input, acc)

\* map(many0(parse_letter), collect)
parse_word(input) == many_letter(input, << >>)

\* The result of a from_str: [ok, val, rest], val the letters parsed (one for
\* a Letter) and rest the input an error carries (empty on success: finish()
\* drops the remaining input of an Ok).
Parsed(val) == [ ok |-> TRUE, val |-> val, rest |-> << >>, panic |-> FALSE ]

Failed(input) == [ ok |-> FALSE, val |-> << >>, rest |-> input, panic |-> FALSE ]

Panicked == [ ok |-> FALSE, val |-> << >>, rest |-> << >>, panic |-> TRUE ]

\* the match on parse(s).finish()
finish(parsed) == IF parsed.ok THEN Parsed(parsed.val) ELSE Failed(parsed.rest)

\* impl FromStr for Letter (letter/parse.rs)
letter_from_str(s) == finish(parse_letter(s))

\* impl FromStr for Word (word/parse.rs)
word_from_str(s) == finish(parse_word(s))

(***************************************************************************)
(* word/mod.rs: the hand-written parser.  Its errors are messages, they    *)
(* carry no input; a slice whose start is past its end + 1 panics.         *)
(***************************************************************************)
\* impl TryFrom<char> for Letter, for the characters its callers pass
try_from_char(c) == IF c = "." THEN all ELSE { into_index(c) }

RECURSIVE mod_letter_loop(_, _, _, _)
\* the loop of Letter::from_str and the code after it: start is the Option
\* of the pending range start, prior the character read last
mod_letter_loop(s, start, prior, char_set) ==
  IF s = << >>
    THEN Parsed(<< char_set \cup UNION { range_indices(st, LastChar) : st \in start } >>)
    ELSE LET lc == Head(s)
         IN  IF lc = "-"
               THEN IF prior = "-" THEN Failed(<< >>)
                    ELSE mod_letter_loop(Tail(s), { prior }, "-", char_set)
             ELSE IF lc \in Lowercase
               THEN LET st == IF start = {} THEN lc ELSE CHOOSE x \in start : TRUE
                    IN  IF into_index(st) > into_index(lc) + 1 THEN Panicked
                        ELSE mod_letter_loop(Tail(s), {}, lc,
                                             char_set \cup range_indices(st, lc))
             ELSE Failed(<< >>)

\* impl FromStr for Letter (word/mod.rs): the text between two brackets
mod_letter_from_str(s) == mod_letter_loop(s, {}, "a", {})

RECURSIVE mod_word_loop(_, _, _)
\* the loop of Word::from_str: group is the Option of the open group's text
mod_word_loop(s, letters, group) ==
  IF s = << >> THEN Parsed(letters)
  ELSE LET wc == Head(s)
       IN  IF wc = "]"
             THEN IF group = {} THEN Failed(<< >>)
                  ELSE LET in_group == mod_letter_from_str(CHOOSE g \in group : TRUE)
                       IN  IF in_group.ok THEN mod_word_loop(Tail(s), letters \o in_group.val, {}) ELSE in_group
           ELSE IF wc \in Lowercase \cup { "-" } /\ group # {}
             THEN mod_word_loop(Tail(s), letters, { g \o << wc >> : g \in group })
           ELSE IF wc \in Lowercase \cup { "." }
             THEN mod_word_loop(Tail(s), Append(letters, try_from_char(wc)), group)
           ELSE IF wc = "["
             THEN mod_word_loop(Tail(s), letters, { << >> })
           ELSE Failed(<< >>)

\* impl FromStr for Word (word/mod.rs)
mod_word_from_str(s) == mod_word_loop(s, << >>, {})

(***************************************************************************)
(* letter/unparse.rs and word/unparse.rs: Display.                         *)
(***************************************************************************)
RECURSIVE combine_filter_map(_, _)
\* the filter_map of combine_into_ranges: the closure owns a copy of range,
\* it yields the range it held whenever a number starts a new one
combine_filter_map(nums, range) ==
  IF nums = << >> THEN << >>
  ELSE LET n == Head(nums)
       IN  IF range[2] + 1 = n
             THEN combine_filter_map(Tail(nums), << range[1], n >>)
             ELSE << range >> \o combine_filter_map(Tail(nums), << n, n >>)

\* combine_into_ranges: chain(range) reads the variable the closure copied,
\* which still holds the first number
combine_into_ranges(nums) ==
  IF nums = << >> THEN << >>
  ELSE combine_filter_map(Tail(nums), << nums[1], nums[1] >>)
         \o << << nums[1], nums[1] >> >>

unparse_char_pair(start, end) ==
  IF start = end THEN << start >> ELSE << start, "-", end >>

unparse_group_letter(letter) ==
  LET ranges == combine_into_ranges(indices(letter))
  IN  << "[" >>
        \o Concat([ k \in 1..Len(ranges) |->
                      unparse_char_pair(from_index(ranges[k][1]), from_index(ranges[k][2])) ])
        \o << "]" >>

\* unparse_dot_letter, or else unparse_char_letter, or else unparse_group_letter
unparse_letter(letter) ==
  IF letter = all THEN << "." >>
  ELSE IF Cardinality(letter) = 1 THEN << from_index(CHOOSE i \in letter : TRUE) >>
  ELSE unparse_group_letter(letter)

unparse_word(w) == Concat([ k \in 1..Len(w) |-> unparse_letter(w[k]) ])

(***************************************************************************)
(* word/mod.rs: From<Letter> for String and From<Word> for String.         *)
(***************************************************************************)
RECURSIVE mod_ranges(_, _)
\* the loop over the set indices: ranges is the Vec built so far
mod_ranges(nums, ranges) ==
  IF nums = << >> THEN ranges
  ELSE LET i == Head(nums)
           popped == IF ranges = << >> THEN << i, i >> ELSE ranges[Len(ranges)]
           below == IF ranges = << >> THEN << >> ELSE SubSeq(ranges, 1, Len(ranges) - 1)
       IN  IF popped[2] + 1 >= i
             THEN mod_ranges(Tail(nums), Append(below, << popped[1], i >>))
             ELSE mod_ranges(Tail(nums), below \o << popped, << i, i >> >>)

\* the closure of the final map
mod_range_string(s, e) ==
  IF s = 0 THEN << "-", from_index(e) >>
  ELSE IF e = LastIndex THEN << from_index(s), "-" >>
  ELSE IF s = e THEN to_string(s)
  ELSE << from_index(s), "-", from_index(e) >>

\* From<Letter> for String: a lone range is popped before it is looked at,
\* so the final format! sees an empty Vec for it
mod_letter_into_string(val) ==
  LET ranges == mod_ranges(indices(val), << >>)
      lone == Len(ranges) = 1
      left == IF lone THEN << >> ELSE ranges
  IN  IF lone /\ ranges[1][1] = ranges[1][2] THEN << from_index(ranges[1][1]) >>
      ELSE IF lone /\ ranges[1][1] = 0 /\ ranges[1][2] = LastIndex THEN << "." >>
      ELSE << "[" >>
             \o Concat([ k \in 1..Len(left) |-> mod_range_string(left[k][1], left[k][2]) ])
             \o << "]" >>

mod_word_into_string(w) == Concat([ k \in 1..Len(w) |-> mod_letter_into_string(w[k]) ])

(***************************************************************************)
(* Nodes: struct Trie { is_end, children } and the required methods of     *)
(* trait TrieNode over it.                                                 *)
(***************************************************************************)
NoChildren == << >>

MkNode(end, kids) == [ is_end |-> end, children |-> kids ]

\* TrieNode::empty / Trie::empty
empty == MkNode(FALSE, NoChildren)

is_end(n) == n.is_end

set_end(n, end) == [ n EXCEPT !.is_end = end ]

is_leaf(n) == DOMAIN n.children = {}

\* Option<&Self>: {} or {child}
get_child(n, c) ==
  IF into_index(c) \in DOMAIN n.children THEN { n.children[into_index(c)] } ELSE {}

\* set_child(c, other): other is an Option<Self>
set_child(n, c, other) ==
  LET i == into_index(c)
      dom == IF other = {} THEN DOMAIN n.children \ {i} ELSE DOMAIN n.children \cup {i}
  IN  [ n EXCEPT !.children =
          [ j \in dom |-> IF j = i THEN CHOOSE t \in other : TRUE ELSE n.children[j] ] ]

(***************************************************************************)
(* The strings a node accepts: the words along paths to an is_end node,    *)
(* as sequences of characters.                                             *)
(***************************************************************************)
RECURSIVE Accepts(_)
Accepts(n) ==
  (IF n.is_end THEN { << >> } ELSE {})
    \cup UNION { { << from_index(i) >> \o s : s \in Accepts(n.children[i]) } :
                 i \in DOMAIN n.children }

RECURSIVE Size(_)
RECURSIVE SizeSum(_, _)
SizeSum(n, todo) ==
  IF todo = {} THEN 0
  ELSE LET i == CHOOSE j \in todo : TRUE
       IN  Size(n.children[i]) + SizeSum(n, todo \ {i})

\* the number of nodes of a tree
Size(n) == 1 + SizeSum(n, DOMAIN n.children)

(***************************************************************************)
(* Every tree with at most n nodes over the first NumSymbols symbols: the  *)
(* values a Trie can take (Trie::random draws is_end and each slot freely).*)
(***************************************************************************)
RECURSIVE TriesUpTo(_)
RECURSIVE ChildMaps(_, _)
ChildMaps(i, n) ==
  IF i = NumSymbols THEN { NoChildren }
  ELSE ChildMaps(i + 1, n)
         \cup UNION { { [ j \in DOMAIN m \cup {i} |-> IF j = i THEN t ELSE m[j] ] :
                        m \in ChildMaps(i + 1, n - Size(t)) } : t \in TriesUpTo(n) }

TriesUpTo(n) ==
  IF n <= 0 THEN {}
  ELSE { MkNode(e, m) : e \in BOOLEAN, m \in ChildMaps(0, n - 1) }

TriesBySize == [ n \in 0..MaxNodes |-> TriesUpTo(n) ]

Tries == TriesBySize[MaxNodes]

\* the operands of a binary operation share a budget of MaxNodes + 1 nodes
\* (or are one and the same tree)
Partners(n) == TriesBySize[MaxNodes + 1 - Size(n)]

(***************************************************************************)
(* The generic algorithms of trait TrieNode.                               *)
(***************************************************************************)
RECURSIVE is_empty(_)
is_empty(n) ==
  /\ ~is_end(n)
  /\ \A i \in 1..NumSymbols : \A sub \in get_child(n, CharRange[i]) : is_empty(sub)

\* TrieNode::chars
chars(n) == SelectSeq(CharRange, LAMBDA c : get_child(n, c) # {})

RECURSIVE has_any(_, _)
has_any(self, other) ==
  \/ is_end(self)
  \/ \E k \in 1..Len(chars(other)) :
       LET c == chars(other)[k]
       IN  \E sub0 \in get_child(self, c) : \E sub1 \in get_child(other, c) :
             has_any(sub0, sub1)

RECURSIVE has_all(_, _)
has_all(self, other) ==
  /\ is_end(self)
  /\ \A k \in 1..Len(chars(other)) :
       LET c == chars(other)[k]
       IN  \E sub0 \in get_child(self, c) : \E sub1 \in get_child(other, c) :
             has_all(sub0, sub1)

RECURSIVE and(_, _)
RECURSIVE and_loop(_, _, _)
and_loop(tree, other, i) ==
  IF i > NumSymbols THEN tree
  ELSE LET c == CharRange[i]
           sub == { and(sub0, sub1) : sub0 \in get_child(tree, c),
                                      sub1 \in get_child(other, c) }
       IN  and_loop(set_child(tree, c, sub), other, i + 1)

\* and with the flag of self kept
and_keeps_flag(self, other) ==
  and_loop(set_end(self, is_end(self)), other, 1)

and(self, other) ==
  and_loop(set_end(self, is_end(self) /\ is_end(other)), other, 1)

RECURSIVE or(_, _)
RECURSIVE or_loop(_, _, _, _)
or_loop(tree, self, other, i) ==
  IF i > NumSymbols THEN tree
  ELSE LET c == CharRange[i]
           s0 == get_child(self, c)
           s1 == get_child(other, c)
           sub == IF s0 # {} /\ s1 # {}
                    THEN { or(sub0, sub1) : sub0 \in s0, sub1 \in s1 }
                  ELSE IF s0 # {} THEN { or(sub0, empty) : sub0 \in s0 }
                  ELSE IF s1 # {} THEN { or(sub1, empty) : sub1 \in s1 }
                  ELSE {}
       IN  or_loop(set_child(tree, c, sub), self, other, i + 1)

or(self, other) ==
  or_loop(set_end(empty, is_end(self) \/ is_end(other)), self, other, 1)

RECURSIVE diff(_, _)
RECURSIVE diff_loop(_, _, _, _)
diff_loop(tree, self, other, i) ==
  IF i > NumSymbols THEN tree
  ELSE LET c == CharRange[i]
           s0 == get_child(self, c)
           s1 == get_child(other, c)
           sub == IF s0 # {} /\ s1 # {}
                    THEN { diff(sub0, sub1) : sub0 \in s0, sub1 \in s1 }
                  ELSE IF s0 # {} THEN s0
                  ELSE {}
       IN  diff_loop(set_child(tree, c, sub), self, other, i + 1)

\* the flag is computed from the fresh empty tree, not from self
diff(self, other) ==
  diff_loop(set_end(empty, is_end(empty) /\ ~is_end(other)), self, other, 1)


(***************************************************************************)
(* Traversal.  A stack entry is (node, left): left is the position in      *)
(* 'a'..='z' of the next character the range yields, past the end once the *)
(* range is exhausted.                                                     *)
(***************************************************************************)
\* TrieNode::dfs
dfs(n) == << [ node |-> n, left |-> 1 ] >>

\* left.next().and_then(|c| node.get_child(c) ...): the range yields its next
\* character, and the entry is None when the range is exhausted or when the
\* node has no child for that character
dfs_entry(top) ==
  IF top.left > NumSymbols THEN {}
  ELSE { [ sub |-> sub, c |-> CharRange[top.left] ] :
           sub \in get_child(top.node, CharRange[top.left]) }

\* DepthFirstIterator::next: the new stack and the Option<(node, Option<char>)>
dfs_next(stk) ==
  IF stk = << >> THEN [ stack |-> stk, item |-> {} ]
  ELSE LET top == stk[Len(stk)]
           entry == dfs_entry(top)
           \* the range has advanced whether or not a child was found
           moved == [ stk EXCEPT ![Len(stk)].left =
                        IF top.left > NumSymbols THEN top.left ELSE top.left + 1 ]
       IN  IF entry # {}
             THEN LET e == CHOOSE x \in entry : TRUE
                  IN  [ stack |-> Append(moved, [ node |-> e.sub, left |-> 1 ]),
                        item |-> { [ node |-> e.sub, movement |-> { e.c } ] } ]
             ELSE [ stack |-> SubSeq(moved, 1, Len(moved) - 1),
                    item |-> { [ node |-> top.node, movement |-> {} ] } ]

\* String::pop
pop_char(string) ==
  IF string = << >> THEN string ELSE SubSeq(string, 1, Len(string) - 1)

\* scan_to_string: the new String and the Option<Option<String>> returned
scan_to_string(string, node, movement) ==
  LET pushed == IF movement = {} THEN pop_char(string)
                ELSE Append(string, CHOOSE c \in movement : TRUE)
  IN  [ string |-> pushed,
        ret |-> { IF is_end(node) THEN { pushed } ELSE {} : c \in movement } ]

\* next() of Flatten<Scan<DepthFirstIterator, String, scan_to_string>>: Scan
\* stops at the first None of dfs or of scan_to_string, Flatten (which fuses
\* the Scan) skips each Some(None) and yields the String of each Some(Some(s))
RECURSIVE strings_next(_, _)
strings_next(stk, string) ==
  LET step == dfs_next(stk)
  IN  IF step.item = {}
        THEN [ stack |-> step.stack, prefix |-> string, fused |-> TRUE, item |-> {} ]
        ELSE LET ev == CHOOSE x \in step.item : TRUE
                 sc == scan_to_string(string, ev.node, ev.movement)
             IN  IF sc.ret = {}
                   THEN [ stack |-> step.stack, prefix |-> sc.string,
                          fused |-> TRUE, item |-> {} ]
                   ELSE LET inner == CHOOSE x \in sc.ret : TRUE
                        IN  IF inner = {}
                              THEN strings_next(step.stack, sc.string)
                              ELSE [ stack |-> step.stack, prefix |-> sc.string,
                                     fused |-> FALSE, item |-> inner ]

(***************************************************************************)
(* The in-place set operations of the owned tree (impl Trie) and the       *)
(* operators built on them.                                                *)
(***************************************************************************)
RECURSIVE or_assign(_, _)
or_assign(self, trie) ==
  MkNode(self.is_end \/ trie.is_end,
         [ i \in DOMAIN self.children \cup DOMAIN trie.children |->
             IF i \in DOMAIN trie.children
               THEN IF i \in DOMAIN self.children
                      THEN or_assign(self.children[i], trie.children[i])
                      ELSE trie.children[i]
               ELSE self.children[i] ])

RECURSIVE and_assign(_, _)
\* and_assign without the else branch that clears a slot the operand lacks
and_assign_keeps_slots(self, trie) ==
  MkNode(self.is_end /\ trie.is_end,
         [ i \in DOMAIN self.children |->
             IF i \in DOMAIN trie.children
               THEN and_assign(self.children[i], trie.children[i])
               ELSE self.children[i] ])

and_assign(self, trie) ==
  MkNode(self.is_end /\ trie.is_end,
         [ i \in DOMAIN self.children \cap DOMAIN trie.children |->
             and_assign(self.children[i], trie.children[i]) ])

\* diff_assign that clears the flag and leaves the children alone
diff_assign_clears_flag(self, trie) == MkNode(FALSE, self.children)

RECURSIVE diff_assign(_, _)
diff_assign(self, trie) ==
  MkNode(self.is_end /\ ~trie.is_end,
         [ i \in DOMAIN self.children |->
             IF i \in DOMAIN trie.children
               THEN diff_assign(self.children[i], trie.children[i])
               ELSE self.children[i] ])

(***************************************************************************)
(* State.                                                                  *)
(***************************************************************************)
VARIABLES
  a,      \* the receiver (self) of an operation
  b,      \* the second operand (other)
  op,     \* the operation applied last, "none" before any
  res,    \* the node an operation returned
  flag,   \* the boolean an operation returned
  it,     \* the strings() iterator: "none", "live" or "fused"
  stack,  \* DepthFirstIterator::stack, the top last
  prefix, \* the String that scan carries along
  out,    \* the strings the iterator has yielded so far
  text,   \* a pattern text
  word,   \* a Word, the sequence of its Letters
  outcome, \* the Result a from_str returned
  frames, \* the activations of TrieNode::from_word, the innermost last
  result, \* the Option of the node the outermost from_word returned
  heap,   \* the Rc allocations of Dawg nodes, by address
  handles, \* the Dawg and WeakDawg values the caller holds
  mutated, \* the Option of the handle deref_mut was last called on
  panicked, \* a panic has unwound the caller
  file,   \* the bytes of the File, from its position on
  path    \* the Path of the File: its extension and whether it can be opened

vars == << a, b, op, res, flag, it, stack, prefix, out, text, word, outcome, frames, result,
          heap, handles, mutated, panicked, file, path >>

NoOutcome == [ ok |-> FALSE, val |-> << >>, rest |-> << >>, panic |-> FALSE ]

\* no pattern is being read or written
NoPattern ==
  /\ text = << >>
  /\ word = << >>
  /\ outcome = NoOutcome

\* from_word has not been called
NoCall ==
  /\ frames = << >>
  /\ result = {}

\* no Dawg has been made
NoHeap ==
  /\ heap = << >>
  /\ handles = << >>
  /\ mutated = {}
  /\ panicked = FALSE

\* no File is open
NoFile ==
  /\ file = << >>
  /\ path = [ ext |-> "tre", found |-> TRUE ]

\* what the set operations leave alone
SetFrame == UNCHANGED << it, stack, prefix, out, text, word, outcome, frames, result, heap, handles, mutated, panicked, file, path >>

\* no iterator has been made
NoIterator ==
  /\ it = "none"
  /\ stack = << >>
  /\ prefix = << >>
  /\ out = << >>

(***************************************************************************)
(* Set algebra over two nodes.                                             *)
(***************************************************************************)
InitSet ==
  /\ a \in Tries
  /\ b \in Partners(a) \cup {a}
  /\ op = "none"
  /\ res = empty
  /\ flag = FALSE
  /\ NoIterator
  /\ NoPattern
  /\ NoCall
  /\ NoHeap
  /\ NoFile

\* TrieNode::and
And ==
  /\ op = "none"
  /\ op' = "and"
  /\ res' = and(a, b)
  /\ UNCHANGED << a, b, flag, heap, handles, mutated, panicked, file, path >>
  /\ SetFrame

\* TrieNode::or
Or ==
  /\ op = "none"
  /\ op' = "or"
  /\ res' = or(a, b)
  /\ UNCHANGED << a, b, flag, heap, handles, mutated, panicked, file, path >>
  /\ SetFrame

\* TrieNode::diff
Diff ==
  /\ op = "none"
  /\ op' = "diff"
  /\ res' = diff(a, b)
  /\ UNCHANGED << a, b, flag, heap, handles, mutated, panicked, file, path >>
  /\ SetFrame

\* &Trie & Trie: and_assign on a clone of a
BitAnd ==
  /\ op = "none"
  /\ op' = "bitand"
  /\ res' = and_assign(a, b)
  /\ UNCHANGED << a, b, flag, heap, handles, mutated, panicked, file, path >>
  /\ SetFrame

\* &Trie | Trie: or_assign on a clone of a
BitOr ==
  /\ op = "none"
  /\ op' = "bitor"
  /\ res' = or_assign(a, b)
  /\ UNCHANGED << a, b, flag, heap, handles, mutated, panicked, file, path >>
  /\ SetFrame

\* &Trie / Trie: diff_assign on a clone of a
Div ==
  /\ op = "none"
  /\ op' = "div"
  /\ res' = diff_assign(a, b)
  /\ UNCHANGED << a, b, flag, heap, handles, mutated, panicked, file, path >>
  /\ SetFrame

\* TrieNode::has_any
HasAny ==
  /\ op = "none"
  /\ op' = "has_any"
  /\ flag' = has_any(a, b)
  /\ UNCHANGED << a, b, res, heap, handles, mutated, panicked, file, path >>
  /\ SetFrame

\* TrieNode::has_all
HasAll ==
  /\ op = "none"
  /\ op' = "has_all"
  /\ flag' = has_all(a, b)
  /\ UNCHANGED << a, b, res, heap, handles, mutated, panicked, file, path >>
  /\ SetFrame

NextSet == And \/ Or \/ Diff \/ BitAnd \/ BitOr \/ Div \/ HasAny \/ HasAll

SpecSet == InitSet /\ [][NextSet]_vars


(***************************************************************************)
(* Claims about the set algebra, checked under SpecSet.                    *)
(***************************************************************************)

\* C1: diff(a, b) is accepting iff a is accepting and b is not, and it accepts
\* exactly the strings a accepts and b does not.
C1_DiffIsDifference ==
  op = "diff" =>
    /\ is_end(res) = (is_end(a) /\ ~is_end(b))
    /\ Accepts(res) = Accepts(a) \ Accepts(b)

\* C2: has_all(a, b) is true iff every string b accepts is accepted by a.
C2_HasAllIsSubset ==
  op = "has_all" => (flag <=> Accepts(b) \subseteq Accepts(a))

\* C3: has_any(a, b) is true iff some string is accepted by both a and b.
C3_HasAnyIsOverlap ==
  op = "has_any" => (flag <=> Accepts(a) \cap Accepts(b) # {})

\* C9: and(a, b), and a & b of the tree, is accepting iff both operands are, has
\* a child for a symbol iff both have one, that child being the and of the two
\* children, and accepts exactly the strings both operands accept.
C9_AndIsIntersection ==
  op \in { "and", "bitand" } =>
    /\ is_end(res) = (is_end(a) /\ is_end(b))
    /\ DOMAIN res.children = DOMAIN a.children \cap DOMAIN b.children
    /\ \A i \in DOMAIN res.children :
         res.children[i] = IF op = "and" THEN and(a.children[i], b.children[i])
                           ELSE and_assign(a.children[i], b.children[i])
    /\ Accepts(res) = Accepts(a) \cap Accepts(b)

\* an and that drops a child of a which b lacks and keeps a common child with
\* a string below it
C9_Witness ==
  /\ op = "and"
  /\ DOMAIN a.children \ DOMAIN b.children # {}
  /\ Accepts(a) # Accepts(b)
  /\ \E s \in Accepts(res) : Len(s) > 0

\* C10: on value, and(a, b) = and(b, a) and and(a, a) = a; or(a, empty) = a;
\* diff(a, a) accepts no string.
C10_AlgebraLaws ==
  /\ op = "and" => res = and(b, a)
  /\ op = "bitand" => res = and_assign(b, a)
  /\ (op \in { "and", "bitand" } /\ b = a) => res = a
  /\ (op \in { "or", "bitor" } /\ b = empty) => res = a
  /\ (op \in { "diff", "div" } /\ b = a) => Accepts(res) = {}

\* and of a tree with itself, the tree having accepting nodes at two depths
C10_Witness ==
  /\ op = "and"
  /\ b = a
  /\ \E s, t \in Accepts(a) : Len(s) # Len(t)
  /\ res = a


(***************************************************************************)
(* Enumeration of the strings of a node: strings() makes the iterator and  *)
(* each StringsNext is one call of its next().                             *)
(***************************************************************************)
InitStrings ==
  /\ a \in Tries
  /\ b = empty
  /\ op = "none"
  /\ res = empty
  /\ flag = FALSE
  /\ NoIterator
  /\ NoPattern
  /\ NoCall
  /\ NoHeap
  /\ NoFile

\* TrieNode::strings
Strings ==
  /\ it = "none"
  /\ it' = "live"
  /\ stack' = dfs(a)
  /\ prefix' = << >>
  /\ out' = << >>
  /\ UNCHANGED << a, b, op, res, flag, text, word, outcome, frames, result, heap, handles, mutated, panicked, file, path >>

\* Flatten::next on the iterator; once it has returned None it keeps doing so
StringsNext ==
  /\ it = "live"
  /\ LET r == strings_next(stack, prefix)
     IN  /\ stack' = r.stack
         /\ prefix' = r.prefix
         /\ it' = IF r.fused THEN "fused" ELSE "live"
         /\ out' = IF r.item = {} THEN out ELSE Append(out, CHOOSE x \in r.item : TRUE)
  /\ UNCHANGED << a, b, op, res, flag, text, word, outcome, frames, result, heap, handles, mutated, panicked, file, path >>

\* TrieNode::dfs
Dfs ==
  /\ it = "none"
  /\ it' = "dfs"
  /\ stack' = dfs(a)
  /\ out' = << >>
  /\ UNCHANGED << a, b, op, res, flag, prefix, text, word, outcome, frames, result, heap, handles, mutated, panicked, file, path >>

\* one call of DepthFirstIterator::next, up to the call that returns None;
\* out takes the movement of the event, a text of one symbol or of none
DfsNext ==
  /\ it = "dfs"
  /\ LET r == dfs_next(stack)
     IN  /\ stack' = r.stack
         /\ it' = IF r.item = {} THEN "dfs_done" ELSE "dfs"
         /\ out' = out \o [ k \in 1..Cardinality(r.item) |->
                              [ j \in 1..Cardinality((CHOOSE x \in r.item : TRUE).movement) |->
                                  CHOOSE c \in (CHOOSE x \in r.item : TRUE).movement : TRUE ] ]
  /\ UNCHANGED << a, b, op, res, flag, prefix, text, word, outcome, frames, result, heap, handles, mutated, panicked, file, path >>

NextStrings == Strings \/ StringsNext \/ Dfs \/ DfsNext

SpecStrings == InitStrings /\ [][NextStrings]_vars

\* s comes before t in lexicographic order
LexLess(s, t) ==
  \E k \in 1..(Len(t)) :
    /\ k <= Len(s) + 1
    /\ \A j \in 1..(k - 1) : s[j] = t[j]
    /\ (k = Len(s) + 1 \/ into_index(s[k]) < into_index(t[k]))

\* C4: strings(n) yields every string n accepts exactly once, in ascending
\* lexicographic order, and then ends.
C4_StringsEnumerates ==
  it = "fused" =>
    /\ { out[k] : k \in 1..Len(out) } = Accepts(a)
    /\ \A j, k \in 1..Len(out) : j < k => LexLess(out[j], out[k])

\* the movements of a traversal of n from its slot i on: for each child, in
\* ascending order, the symbol and the traversal of the child; then the exit
RECURSIVE Traversal(_, _)
Traversal(n, i) ==
  IF i > NumSymbols THEN << << >> >>
  ELSE IF get_child(n, CharRange[i]) = {} THEN Traversal(n, i + 1)
  ELSE << << CharRange[i] >> >>
         \o Traversal(CHOOSE x \in get_child(n, CharRange[i]) : TRUE, 1)
         \o Traversal(n, i + 1)

\* C27: dfs(n) gives every node under n one pre-order event with the symbol
\* descended by, children in ascending order, and one post-order event
\* without a symbol; the last event is the exit of n, and None follows.
C27_DfsVisitsEveryNode ==
  /\ it = "dfs" => \E k \in 0..Len(Traversal(a, 1)) : out = SubSeq(Traversal(a, 1), 1, k)
  /\ it = "dfs_done" => out = Traversal(a, 1)

(***************************************************************************)
(* Reading pattern texts.                                                  *)
(***************************************************************************)
InitParse ==
  /\ text \in Texts
  /\ word = << >>
  /\ outcome = NoOutcome
  /\ a = empty
  /\ b = empty
  /\ op = "none"
  /\ res = empty
  /\ flag = FALSE
  /\ NoIterator
  /\ NoCall
  /\ NoHeap
  /\ NoFile

\* text.parse::<Letter>() through letter/parse.rs
LetterFromStr ==
  /\ op = "none"
  /\ op' = "letter_from_str"
  /\ outcome' = letter_from_str(text)
  /\ UNCHANGED << a, b, res, flag, it, stack, prefix, out, text, word, frames, result, heap, handles, mutated, panicked, file, path >>

\* text.parse::<Word>() through word/parse.rs
WordFromStr ==
  /\ op = "none"
  /\ op' = "word_from_str"
  /\ outcome' = word_from_str(text)
  /\ UNCHANGED << a, b, res, flag, it, stack, prefix, out, text, word, frames, result, heap, handles, mutated, panicked, file, path >>

\* text.parse::<Word>() through word/mod.rs
ModWordFromStr ==
  /\ op = "none"
  /\ op' = "mod_word_from_str"
  /\ outcome' = mod_word_from_str(text)
  /\ UNCHANGED << a, b, res, flag, it, stack, prefix, out, text, word, frames, result, heap, handles, mutated, panicked, file, path >>

NextParse == LetterFromStr \/ WordFromStr \/ ModWordFromStr

SpecParse == InitParse /\ [][NextParse]_vars

\* the text has a character outside the grammar
HasUnknownChar(t) ==
  \E k \in 1..Len(t) : t[k] \notin Lowercase \cup { ".", "[", "]", "-" }

RECURSIVE BracketsMatch(_, _)
\* every "[" of t is closed by the next bracket and every "]" closes one;
\* open tells whether a group is open where t starts
BracketsMatch(t, open) ==
  IF t = << >> THEN ~open
  ELSE IF Head(t) = "[" THEN ~open /\ BracketsMatch(Tail(t), TRUE)
  ELSE IF Head(t) = "]" THEN open /\ BracketsMatch(Tail(t), FALSE)
  ELSE BracketsMatch(Tail(t), open)

\* s is a suffix of t
IsRemainderOf(s, t) ==
  \E k \in 1..(Len(t) + 1) : s = SubSeq(t, k, Len(t))

\* C6: a text with an unknown character or an unmatched bracket is not
\* parsed: from_str returns an error, and the error carries the input that
\* was left unconsumed.
C6_MalformedIsRejected ==
  (op \in { "letter_from_str", "word_from_str", "mod_word_from_str" }
     /\ (HasUnknownChar(text) \/ ~BracketsMatch(text, FALSE)))
    => /\ ~outcome.ok
       /\ ~outcome.panic
       /\ IsRemainderOf(outcome.rest, text)

\* the text of a group: singles, ranges and dashes, at least one character
IsGroupText(g) ==
  /\ g # << >>
  /\ \A k \in 1..Len(g) : g[k] \in Lowercase \cup { "-" }

RECURSIVE GroupDenotes(_)
\* the characters a group lists, its items read from the left: a range
\* without a start begins at 'a', a range without an end ends at the last
\* character of the alphabet
GroupDenotes(g) ==
  LET n == Len(g)
      from(k) == SubSeq(g, k, n)
  IN  IF g = << >> THEN {}
      ELSE IF g[1] = "-"
        THEN IF n >= 2 /\ g[2] # "-"
               THEN (0..IndexOf[g[2]]) \cup GroupDenotes(from(3))
               ELSE all \cup GroupDenotes(from(2))
      ELSE IF n >= 2 /\ g[2] = "-"
        THEN IF n >= 3 /\ g[3] # "-"
               THEN (IndexOf[g[1]]..IndexOf[g[3]]) \cup GroupDenotes(from(4))
               ELSE (IndexOf[g[1]]..LastIndex) \cup GroupDenotes(from(3))
      ELSE { IndexOf[g[1]] } \cup GroupDenotes(from(2))

\* the index of the first "]" of t, 0 when there is none
FirstClose(t) ==
  IF \E k \in 1..Len(t) : t[k] = "]"
    THEN CHOOSE k \in 1..Len(t) : t[k] = "]" /\ \A j \in 1..(k - 1) : t[j] # "]"
    ELSE 0

RECURSIVE IsWordText(_)
\* t is a sequence of Letter texts: '.', a lowercase character or a group
\* between brackets
IsWordText(t) ==
  IF t = << >> THEN TRUE
  ELSE IF t[1] = "["
    THEN LET k == FirstClose(t)
         IN  k > 0 /\ IsGroupText(SubSeq(t, 2, k - 1)) /\ IsWordText(SubSeq(t, k + 1, Len(t)))
  ELSE t[1] \in Lowercase \cup { "." } /\ IsWordText(Tail(t))

RECURSIVE WordDenotes(_)
\* the Letters of a word text, in text order
WordDenotes(t) ==
  IF t = << >> THEN << >>
  ELSE IF t[1] = "["
    THEN LET k == FirstClose(t)
         IN  << GroupDenotes(SubSeq(t, 2, k - 1)) >> \o WordDenotes(SubSeq(t, k + 1, Len(t)))
  ELSE IF t[1] = "." THEN << all >> \o WordDenotes(Tail(t))
  ELSE << { IndexOf[t[1]] } >> \o WordDenotes(Tail(t))

\* t is the text of exactly one Letter
IsLetterText(t) == IsWordText(t) /\ Len(WordDenotes(t)) = 1

\* Every dash of t has a character other than a dash in the two places
\* before it, unless it opens its group; and no range of t runs downwards.
\* These are the groups on which the parser of word/mod.rs, which takes the
\* character before a dash for the start of its range, reads the same items
\* as the parser of letter/parse.rs.
IsPlainText(t) ==
  \A k \in 1..Len(t) :
    t[k] = "-" =>
      /\ k > 1 /\ t[k - 1] # "-"
      /\ t[k - 1] # "[" => (k > 2 /\ t[k - 2] # "-")
      /\ (t[k - 1] \in Lowercase /\ k < Len(t) /\ t[k + 1] \in Lowercase)
           => IndexOf[t[k - 1]] <= IndexOf[t[k + 1]]

InitUnparse ==
  /\ word \in Words
  /\ text = << >>
  /\ outcome = NoOutcome
  /\ a = empty
  /\ b = empty
  /\ op = "none"
  /\ res = empty
  /\ flag = FALSE
  /\ NoIterator
  /\ NoCall
  /\ NoHeap
  /\ NoFile

\* word.to_string() through Display (word/unparse.rs)
Display ==
  /\ op = "none"
  /\ op' = "display"
  /\ text' = unparse_word(word)
  /\ UNCHANGED << a, b, res, flag, it, stack, prefix, out, word, outcome, frames, result, heap, handles, mutated, panicked, file, path >>

\* String::from(word) (word/mod.rs)
IntoString ==
  /\ op = "none"
  /\ op' = "into_string"
  /\ text' = mod_word_into_string(word)
  /\ UNCHANGED << a, b, res, flag, it, stack, prefix, out, word, outcome, frames, result, heap, handles, mutated, panicked, file, path >>

\* the displayed text parsed by word/parse.rs
Reparse ==
  /\ op = "display"
  /\ op' = "reparse"
  /\ outcome' = word_from_str(text)
  /\ UNCHANGED << a, b, res, flag, it, stack, prefix, out, text, word, frames, result, heap, handles, mutated, panicked, file, path >>

\* the String parsed by word/mod.rs
ModReparse ==
  /\ op = "into_string"
  /\ op' = "mod_reparse"
  /\ outcome' = mod_word_from_str(text)
  /\ UNCHANGED << a, b, res, flag, it, stack, prefix, out, text, word, frames, result, heap, handles, mutated, panicked, file, path >>

NextUnparse == Display \/ IntoString \/ Reparse \/ ModReparse

SpecUnparse == InitUnparse /\ [][NextUnparse]_vars

\* C5: the text written for a Word parses back to the same Word, Letter
\* for Letter.
C5_UnparseRoundTrips ==
  op \in { "reparse", "mod_reparse" } => outcome = Parsed(word)

(***************************************************************************)
(* Building a node from a Word: Trie::word in one piece, and               *)
(* TrieNode::from_word statement by statement, one activation per call.    *)
(***************************************************************************)
\* the Words over the characters the nodes have slots for
TrieWords == UNION { [ 1..n -> SUBSET Symbols ] : n \in 0..MaxWordLen }

RECURSIVE Trie_word(_)
\* Trie::word
Trie_word(w) ==
  IF w = << >> THEN MkNode(TRUE, NoChildren)
  ELSE LET trie == Trie_word(Tail(w))
       IN  MkNode(FALSE, [ i \in { j \in Symbols : j \in Head(w) } |-> trie ])

RECURSIVE LetterIter_next(_, _)
\* LetterIter::next: the index it stops at and the Option of the item
LetterIter_next(set, idx) ==
  IF idx < NumSymbols
    THEN IF idx \in set THEN [ idx |-> idx, item |-> { from_index(idx) } ]
         ELSE LetterIter_next(set, idx + 1)
    ELSE [ idx |-> idx, item |-> {} ]

\* a call of from_word(w) about to run its first statement
Activation(w) ==
  [ word |-> w, letter |-> {}, idx |-> 0, c |-> "", sub |-> empty, node |-> empty,
    pc |-> "entry" ]

Top == frames[Len(frames)]

Below == SubSeq(frames, 1, Len(frames) - 1)

InitFromWord ==
  /\ word \in TrieWords
  /\ text = << >>
  /\ outcome = NoOutcome
  /\ a = empty
  /\ b = empty
  /\ op = "none"
  /\ res = empty
  /\ flag = FALSE
  /\ NoIterator
  /\ NoCall
  /\ NoHeap
  /\ NoFile

\* Trie::word(word)
TrieWord ==
  /\ op = "none"
  /\ op' = "word"
  /\ res' = Trie_word(word)
  /\ UNCHANGED << a, b, flag, it, stack, prefix, out, text, word, outcome, frames, result, heap, handles, mutated, panicked, file, path >>

\* the outermost call Self::from_word(word)
FromWord ==
  /\ op = "none"
  /\ op' = "from_word"
  /\ frames' = << Activation(word) >>
  /\ UNCHANGED << a, b, res, flag, it, stack, prefix, out, text, word, outcome, result, heap, handles, mutated, panicked, file, path >>

\* if let Some(letter) = word.next(): the call for the rest of the word, or
\* else node.set_end(true)
WordNext ==
  /\ frames # << >>
  /\ Top.pc = "entry"
  /\ frames' =
       IF Top.word = << >>
         THEN Append(Below, [ Top EXCEPT !.node = set_end(@, TRUE), !.pc = "return" ])
         ELSE Below \o << [ Top EXCEPT !.letter = Head(Top.word), !.word = Tail(Top.word),
                                       !.pc = "call" ],
                          Activation(Tail(Top.word)) >>
  /\ UNCHANGED << a, b, op, res, flag, it, stack, prefix, out, text, word, outcome, result, heap, handles, mutated, panicked, file, path >>

\* the node returned: to let sub of the caller, which makes its LetterIter,
\* or out of the outermost call
Return ==
  /\ frames # << >>
  /\ Top.pc = "return"
  /\ IF Len(frames) = 1
       THEN /\ result' = { Top.node }
            /\ frames' = << >>
       ELSE /\ result' = result
            /\ frames' = Append(SubSeq(frames, 1, Len(frames) - 2),
                                [ frames[Len(frames) - 1] EXCEPT
                                    !.sub = Top.node, !.idx = 0, !.pc = "next" ])
  /\ UNCHANGED << a, b, op, res, flag, it, stack, prefix, out, text, word, outcome, heap, handles, mutated, panicked, file, path >>

\* for c in letter: one call of LetterIter::next
LetterIterNext ==
  /\ frames # << >>
  /\ Top.pc = "next"
  /\ LET got == LetterIter_next(Top.letter, Top.idx)
     IN  frames' =
           IF got.item = {}
             THEN Append(Below, [ Top EXCEPT !.idx = got.idx, !.pc = "return" ])
             ELSE Append(Below, [ Top EXCEPT !.idx = got.idx, !.pc = "body",
                                             !.c = CHOOSE x \in got.item : TRUE ])
  /\ UNCHANGED << a, b, op, res, flag, it, stack, prefix, out, text, word, outcome, result, heap, handles, mutated, panicked, file, path >>

\* node.set_child(c, Some(sub.clone()))
SetChild ==
  /\ frames # << >>
  /\ Top.pc = "body"
  /\ frames' = Append(Below, [ Top EXCEPT !.node = set_child(@, Top.c, { Top.sub }),
                                          !.pc = "next" ])
  /\ UNCHANGED << a, b, op, res, flag, it, stack, prefix, out, text, word, outcome, result, heap, handles, mutated, panicked, file, path >>

NextFromWord == TrieWord \/ FromWord \/ WordNext \/ Return \/ LetterIterNext \/ SetChild

\* a call that can take a step takes it
SpecFromWord == InitFromWord /\ [][NextFromWord]_vars /\ WF_vars(NextFromWord)

\* n is non-empty iff every Letter of w is, and is the accepting leaf for the empty w
BuiltFrom(n, w) ==
  /\ ~is_empty(n) <=> \A k \in 1..Len(w) : w[k] # {}
  /\ w = << >> => n = MkNode(TRUE, NoChildren)

\* C8: the node Trie::word(w) returns, and the node from_word(w) returns, is
\* non-empty iff every Letter of w is non-empty, and the empty Word gives an
\* accepting node without children.
C8_WordBuildsNode ==
  /\ [](op = "word" => BuiltFrom(res, word))
  /\ (op = "from_word") ~> (\E n \in result : BuiltFrom(n, word))

\* C30: the iteration over a Letter yields each of its symbols once, in
\* ascending order, and ends: in from_word, whose loop body sets the child
\* of the symbol yielded, a symbol yielded lies above every child set so far.
C30_LetterIterYieldsOnce ==
  \A k \in 1..Len(frames) :
    frames[k].pc = "body" =>
      /\ into_index(frames[k].c) \in frames[k].letter
      /\ \A i \in DOMAIN frames[k].node.children : i < into_index(frames[k].c)

(***************************************************************************)
(* A Trie and a pattern: Trie::str, + and - with a pattern, has_all with a *)
(* pattern, and the Iterator of Trie.  The pattern is held as the Word it  *)
(* parses to.                                                              *)
(***************************************************************************)
\* Trie::str(w): Self::word of the parsed pattern
Trie_str(w) == Trie_word(w)

\* impl Add<&str> for &Trie: immut_op of add_assign
add(trie, w) == or_assign(trie, Trie_str(w))

\* impl Sub<&str> for &Trie: immut_op of sub_assign
sub(trie, w) == diff_assign(trie, Trie_str(w))

RECURSIVE has_all_word(_, _)
\* Trie::has_all_word: all() runs over every slot of children
has_all_word(self, w) ==
  IF w = << >> THEN self.is_end
  ELSE \A i \in Symbols :
         /\ i \in Head(w)
         /\ i \in DOMAIN self.children
         /\ has_all_word(self.children[i], Tail(w))

RECURSIVE Trie_next(_)
RECURSIVE find_map_next(_, _)
\* the closure of find_map on slot i, got the result of next() on the child
find_map_turn(self, i, got) ==
  IF got.item = {}
    THEN find_map_next([ self EXCEPT !.children[i] = got.trie ], i + 1)
    ELSE [ trie |-> [ self EXCEPT !.children[i] = got.trie ],
           item |-> { << from_index(i) >> \o s : s \in got.item } ]

\* children.iter_mut().enumerate().find_map(..) from slot i on
find_map_next(self, i) ==
  IF i >= NumSymbols THEN [ trie |-> self, item |-> {} ]
  ELSE IF i \notin DOMAIN self.children THEN find_map_next(self, i + 1)
  ELSE find_map_turn(self, i, Trie_next(self.children[i]))

\* next() that clears the flag of an accepting node without yielding for it
Trie_next_skips_end(self) == find_map_next(set_end(self, FALSE), 0)

\* impl Iterator for Trie, next: the trie it leaves and the Option of the item
Trie_next(self) ==
  IF self.is_end
    THEN [ trie |-> set_end(self, FALSE), item |-> { << >> } ]
    ELSE find_map_next(self, 0)

\* the tries paired with a Word: together at most MaxNodes + 1 nodes and Letters
TriesFor(w) ==
  TriesBySize[IF Len(w) = 0 THEN MaxNodes
              ELSE IF Len(w) > MaxNodes THEN 0 ELSE MaxNodes + 1 - Len(w)]

InitWord ==
  /\ word \in TrieWords
  /\ a \in TriesFor(word)
  /\ b = empty
  /\ op = "none"
  /\ res = empty
  /\ flag = FALSE
  /\ text = << >>
  /\ outcome = NoOutcome
  /\ NoIterator
  /\ NoCall
  /\ NoHeap
  /\ NoFile

\* Trie::str(word)
Str ==
  /\ op = "none"
  /\ op' = "str"
  /\ res' = Trie_str(word)
  /\ UNCHANGED << a, b, flag, it, stack, prefix, out, text, word, outcome, frames, result, heap, handles, mutated, panicked, file, path >>

\* &a + word
Add ==
  /\ op = "none"
  /\ op' = "add"
  /\ res' = add(a, word)
  /\ UNCHANGED << a, b, flag, it, stack, prefix, out, text, word, outcome, frames, result, heap, handles, mutated, panicked, file, path >>

\* &x - word, x the Trie a or the Trie made by Str or Add
Sub ==
  /\ op \in { "none", "str", "add" }
  /\ op' = IF op = "none" THEN "sub" ELSE IF op = "str" THEN "str_sub" ELSE "add_sub"
  /\ res' = sub(IF op = "none" THEN a ELSE res, word)
  /\ UNCHANGED << a, b, flag, it, stack, prefix, out, text, word, outcome, frames, result, heap, handles, mutated, panicked, file, path >>

\* x.has_all(word), x the Trie made by Str or Add
HasAllWord ==
  /\ op \in { "str", "add" }
  /\ op' = IF op = "str" THEN "str_has_all" ELSE "add_has_all"
  /\ flag' = has_all_word(res, word)
  /\ UNCHANGED << a, b, res, it, stack, prefix, out, text, word, outcome, frames, result, heap, handles, mutated, panicked, file, path >>

\* x.next(), x the Trie made by Str; the Trie is consumed as it is listed
TrieNext ==
  /\ op \in { "str", "next" }
  /\ LET got == Trie_next(res)
     IN  /\ res' = got.trie
         /\ out' = IF got.item = {} THEN out ELSE Append(out, CHOOSE x \in got.item : TRUE)
         /\ op' = IF got.item = {} THEN "next_none" ELSE "next"
  /\ UNCHANGED << a, b, flag, it, stack, prefix, text, word, outcome, frames, result, heap, handles, mutated, panicked, file, path >>

NextWord == Str \/ Add \/ Sub \/ HasAllWord \/ TrieNext

SpecWord == InitWord /\ [][NextWord]_vars

\* the strings a Word matches: one character of each Letter, in order
Matches(w) ==
  { s \in [ 1..Len(w) -> { from_index(i) : i \in Symbols } ] :
      \A k \in 1..Len(w) : into_index(s[k]) \in w[k] }

\* C11: when the Trie accepts no string the pattern matches, adding the
\* pattern and then subtracting it gives a Trie that accepts what it did.
C11_AddSubRestores ==
  (op = "add_sub" /\ Accepts(a) \cap Matches(word) = {})
    => Accepts(res) = Accepts(a)

\* the pattern matches two strings or more, the Trie accepts strings that
\* begin like one of them, and the sum accepted more than the Trie
C11_Witness ==
  /\ op = "add_sub"
  /\ Accepts(a) \cap Matches(word) = {}
  /\ Cardinality(Matches(word)) >= 2
  /\ \E s \in Accepts(a) : \E m \in Matches(word) : Len(s) > 0 /\ s[1] = m[1]
  /\ Accepts(res) = Accepts(a)
  /\ res # a

\* C12: the Trie of a pattern, and the empty Trie plus the pattern, has all
\* of the pattern.  It is stated for the patterns whose every Letter has a
\* character, those that match a string.
C12_HasAllOwnWord ==
  (\A k \in 1..Len(word) : word[k] # {}) =>
    /\ op = "str_has_all" => flag
    /\ (op = "add_has_all" /\ a = empty) => flag

\* C13: empty - w, (empty + w) - w and str(w) - w all equal Trie::empty().
C13_SubGivesEmpty ==
  /\ (op = "sub" /\ a = empty) => res = empty
  /\ (op = "add_sub" /\ a = empty) => res = empty
  /\ op = "str_sub" => res = empty

\* C14: next() on the Trie of a pattern yields the strings the pattern
\* matches, each once, in ascending lexicographic order, and then None.
C14_NextEnumerates ==
  /\ op \in { "next", "next_none" } =>
       /\ \A j, k \in 1..Len(out) : j < k => LexLess(out[j], out[k])
       /\ { out[k] : k \in 1..Len(out) } \subseteq Matches(word)
  /\ op = "next_none" => { out[k] : k \in 1..Len(out) } = Matches(word)

\* the pattern's second Letter has two characters, all four strings or more
\* have been yielded and then None
C14_Witness ==
  /\ op = "next_none"
  /\ Len(word) = 2
  /\ Cardinality(word[2]) >= 2
  /\ Len(out) >= 4

(***************************************************************************)
(* extract: walking a node and a query node in lockstep.  A stack entry is *)
(* (tree0, tree1, left), left as in the entries of dfs.                    *)
(***************************************************************************)
\* TrieNode::extract
extract(self, other) == << [ tree0 |-> self, tree1 |-> other, left |-> 1 ] >>

\* Option::zip
zip(x, y) == x \X y

RECURSIVE extract_next(_)

\* the end of next(): the pair of children is pushed and next() called again,
\* or the element is the Err naming the character
extract_descend(stk, optn, c) ==
  IF optn # {}
    THEN extract_next(Append(stk, [ tree0 |-> (CHOOSE x \in optn : TRUE)[1],
                                    tree1 |-> (CHOOSE x \in optn : TRUE)[2],
                                    left |-> 1 ]))
    ELSE [ stack |-> stk, item |-> { [ ok |-> FALSE, val |-> c ] } ]

\* next() from the popped entry on
extract_popped(rest, top) ==
  IF is_end(top.tree0) /\ is_end(top.tree1)
    THEN [ stack |-> rest, item |-> { [ ok |-> TRUE, val |-> top.tree0 ] } ]
  ELSE IF top.left > NumSymbols THEN extract_next(rest)
  ELSE extract_descend(Append(rest, [ top EXCEPT !.left = @ + 1 ]),
                       zip(get_child(top.tree0, CharRange[top.left]),
                           get_child(top.tree1, CharRange[top.left])),
                       CharRange[top.left])

\* ExtractIterator::next: the new stack and the Option<Result<&T, String>>
extract_next(stk) ==
  IF stk = << >> THEN [ stack |-> stk, item |-> {} ]
  ELSE extract_popped(SubSeq(stk, 1, Len(stk) - 1), stk[Len(stk)])

InitExtract ==
  /\ a \in Tries
  /\ b \in Partners(a) \cup {a}
  /\ op = "none"
  /\ res = empty
  /\ flag = FALSE
  /\ NoIterator
  /\ NoPattern
  /\ NoCall
  /\ NoHeap
  /\ NoFile

\* a.extract(&b)
Extract ==
  /\ it = "none"
  /\ it' = "live"
  /\ stack' = extract(a, b)
  /\ prefix' = << >>
  /\ out' = << >>
  /\ UNCHANGED << a, b, op, res, flag, text, word, outcome, frames, result, heap, handles, mutated, panicked, file, path >>

\* one call of next() on the iterator, up to the call that returns None
ExtractNext ==
  /\ it = "live"
  /\ stack' = extract_next(stack).stack
  /\ it' = IF extract_next(stack).item = {} THEN "done" ELSE "live"
  /\ out' = IF extract_next(stack).item = {} THEN out
            ELSE Append(out, CHOOSE x \in extract_next(stack).item : TRUE)
  /\ UNCHANGED << a, b, op, res, flag, prefix, text, word, outcome, frames, result, heap, handles, mutated, panicked, file, path >>

NextExtract == Extract \/ ExtractNext

SpecExtract == InitExtract /\ [][NextExtract]_vars

\* the node has a child along every character of s
RECURSIVE HasPath(_, _)
HasPath(n, s) ==
  \/ s = << >>
  \/ \E x \in get_child(n, Head(s)) : HasPath(x, Tail(s))

\* the node reached from n along s
RECURSIVE NodeAt(_, _)
NodeAt(n, s) ==
  IF s = << >> THEN n
  ELSE NodeAt(CHOOSE x \in get_child(n, Head(s)) : TRUE, Tail(s))

\* self has every branch the query has
RECURSIVE Covers(_, _)
Covers(self, query) ==
  \A i \in 1..NumSymbols :
    \A q \in get_child(query, CharRange[i]) :
      \E x \in get_child(self, CharRange[i]) : Covers(x, q)

\* the characters of the branches the query has (towards a string it
\* accepts) and self lacks, at the positions both reach
RECURSIVE MissingChars(_, _)
MissingChars(self, query) ==
  UNION { IF \A q \in get_child(query, CharRange[i]) : is_empty(q) THEN {}
          ELSE IF get_child(self, CharRange[i]) = {} THEN { CharRange[i] }
          ELSE MissingChars(CHOOSE x \in get_child(self, CharRange[i]) : TRUE,
                            CHOOSE x \in get_child(query, CharRange[i]) : TRUE)
          : i \in 1..NumSymbols }

\* the query has the shape of a pattern: its accepting nodes are its leaves
RECURSIVE EndsAtLeaves(_)
EndsAtLeaves(n) ==
  /\ is_end(n) => is_leaf(n)
  /\ \A i \in 1..NumSymbols : \A q \in get_child(n, CharRange[i]) : EndsAtLeaves(q)

\* the number of elements Ok(n) yielded so far
OkCount(n) == Cardinality({ k \in 1..Len(out) : out[k].ok /\ out[k].val = n })

\* C15: when self has every branch of the query (a pattern, each of whose
\* strings self accepts), extract yields no Err and exactly one Ok of the
\* sub-node of self per string the query accepts, and then ends.
C15_ExtractYieldsSubNodes ==
  (/\ it = "done"
   /\ Covers(a, b)
   /\ EndsAtLeaves(b)
   /\ Accepts(b) # {}
   /\ Accepts(b) \subseteq Accepts(a)) =>
    /\ \A k \in 1..Len(out) : out[k].ok
    /\ Len(out) = Cardinality(Accepts(b))
    /\ \A s \in Accepts(b) :
         OkCount(NodeAt(a, s)) =
           Cardinality({ t \in Accepts(b) : NodeAt(a, t) = NodeAt(a, s) })

\* C16: when the query has a branch self lacks, extract yields an Err for it,
\* still yields the sub-node of every string both accept, and ends after
\* finitely many elements.
C16_MissingBranchIsErr ==
  /\ Len(out) <= NumSymbols * Size(b)
  /\ (it = "done" /\ MissingChars(a, b) # {}) =>
       /\ \A c \in MissingChars(a, b) :
            \E k \in 1..Len(out) : ~out[k].ok /\ out[k].val = c
       /\ \A s \in Accepts(a) \cap Accepts(b) :
            \E k \in 1..Len(out) : out[k].ok /\ out[k].val = NodeAt(a, s)

(***************************************************************************)
(* The Dawg of dawg/ptrs.rs.  heap[p] is the allocation behind one         *)
(* Rc<Node>: its strong and weak counts, whether the Node is still there   *)
(* (it is dropped with the last strong pointer) and the Node.  A Dawg is a *)
(* strong pointer and a WeakDawg a weak pointer, both the address p.       *)
(***************************************************************************)
MaxHandles == 3

\* the index of the terminal slot of Children, past the slots of the symbols
EndSlot == NumSymbols

Slots == 0..EndSlot

\* array::from_fn(|_| None)
NoSlots == [ i \in {} |-> 0 ]

\* Node { end_node, children, parents }
MkDawgNode(end_node, children, parents) ==
  [ end_node |-> end_node, children |-> children, parents |-> parents ]

\* Rc::new
rc_new(h, node) ==
  Append(h, [ strong |-> 1, weak |-> 0, alive |-> TRUE, node |-> node ])

\* Rc::new_cyclic(|node| Node { end_node: WeakDawg(node.clone()), .. }): the
\* Node keeps a weak pointer to its own allocation
rc_new_cyclic(h) ==
  Append(h, [ strong |-> 1, weak |-> 1, alive |-> TRUE,
              node |-> MkDawgNode(Len(h) + 1, NoSlots, {}) ])

\* Rc::downgrade, Weak::clone
rc_downgrade(h, p) == [ h EXCEPT ![p].weak = @ + 1 ]

\* Rc::clone, n times
rc_clone(h, p, n) == [ h EXCEPT ![p].strong = @ + n ]

\* drop of a Weak
weak_drop(h, p) == [ h EXCEPT ![p].weak = @ - 1 ]

\* Weak::upgrade: the new heap and the Option of the strong pointer
weak_upgrade(h, p) ==
  IF h[p].strong > 0 THEN [ heap |-> rc_clone(h, p, 1), ptr |-> {p} ]
  ELSE [ heap |-> h, ptr |-> {} ]

RECURSIVE rc_drop(_, _)
RECURSIVE drop_children(_, _, _)
RECURSIVE drop_parents(_, _)

\* drop of the PtrWeakHashSet of the parents
drop_parents(h, parents) ==
  IF parents = {} THEN h
  ELSE drop_parents(weak_drop(h, CHOOSE q \in parents : TRUE),
                    parents \ { CHOOSE q \in parents : TRUE })

\* drop of Children from slot i on
drop_children(h, children, i) ==
  IF i > EndSlot THEN h
  ELSE IF i \in DOMAIN children
    THEN drop_children(rc_drop(h, children[i]), children, i + 1)
  ELSE drop_children(h, children, i + 1)

\* drop of a Node: its fields in the order they are declared
drop_node(h, node) ==
  drop_parents(drop_children(weak_drop(h, node.end_node), node.children, 0),
               node.parents)

\* drop of an Rc: the Node goes with the last strong pointer
rc_drop(h, p) ==
  IF h[p].strong > 1 THEN [ h EXCEPT ![p].strong = @ - 1 ]
  ELSE drop_node([ h EXCEPT ![p].strong = 0, ![p].alive = FALSE ], h[p].node)

\* Rc::get_mut: Some only for the one pointer, strong or weak, to the allocation
rc_get_mut(h, p) == IF h[p].strong = 1 /\ h[p].weak = 0 THEN {p} ELSE {}

\* impl DerefMut for Dawg: the unwrap panics on the empty Option
deref_mut(h, p) == rc_get_mut(h, p)

\* a call that panicked, and a call that returned the Dawg p
Panic(h) == [ heap |-> h, ptr |-> {}, panic |-> TRUE ]

Returned(h, p) == [ heap |-> h, ptr |-> {p}, panic |-> FALSE ]

\* the temporary Rc of Dawg::end is dropped when end returns
end_drop(h, p) == [ heap |-> rc_drop(h, p), ptr |-> p ]

\* Dawg::end: the new heap and the WeakDawg
Dawg_end(h) == end_drop(rc_downgrade(rc_new_cyclic(h), Len(h) + 1), Len(h) + 1)

\* Dawg::from_args: the new heap and the Dawg
from_args(h, end_node, children) ==
  [ heap |-> rc_new(h, MkDawgNode(end_node, children, {})), ptr |-> Len(h) + 1 ]

empty_from_end(e) == from_args(e.heap, e.ptr, NoSlots)

\* Dawg::empty
Dawg_empty(h) == empty_from_end(Dawg_end(h))

\* children[i] = slot, for an Option slot
set_slot(children, i, slot) ==
  IF slot = {} THEN [ j \in DOMAIN children \ {i} |-> children[j] ]
  ELSE [ j \in DOMAIN children \cup {i} |->
           IF j = i THEN CHOOSE x \in slot : TRUE ELSE children[j] ]

\* node.parents.insert(parent): the set keeps a weak pointer to parent and
\* the Dawg handed over is dropped
insert_parent(h, node, parent) ==
  IF parent \in h[node].node.parents THEN rc_drop(h, parent)
  ELSE rc_drop([ rc_downgrade(h, parent) EXCEPT ![node].node.parents = @ \cup {parent} ],
               parent)

\* add_end, second statement: self.children[26].as_mut().map(|node|
\* node.parents.insert(cloned)); without a node cloned is dropped unused
add_end_insert(h, self, slot) ==
  IF deref_mut(h, self) = {} THEN Panic(h)
  ELSE IF slot = {} THEN Returned(rc_drop(h, self), self)
  ELSE IF deref_mut(h, CHOOSE x \in slot : TRUE) = {} THEN Panic(h)
  ELSE Returned(insert_parent(h, CHOOSE x \in slot : TRUE, self), self)

\* add_end, first statement: self.children[26] = (the upgraded end_node)
add_end_assign(h, self, slot) ==
  IF deref_mut(h, self) = {} THEN Panic(h)
  ELSE add_end_insert(
         [ h EXCEPT ![self].node.children = set_slot(@, EndSlot, slot) ], self, slot)

add_end_upgraded(up, self) == add_end_assign(up.heap, self, up.ptr)

\* Dawg::add_end: cloned = self.clone(), then the two statements
add_end(h, self) ==
  add_end_upgraded(weak_upgrade(rc_clone(h, self, 1), h[self].node.end_node), self)

add_end_of(e) == add_end(e.heap, e.ptr)

\* Letter::has_idx_unchecked: self.0[i] of a [bool; 26], the Option empty
\* where the index is out of bounds and the access panics
has_idx_unchecked(letter, i) == IF i < NumSymbols THEN { i \in letter } ELSE {}

\* Dawg::word, last statements: node.parents.insert(dawg.clone()); dawg
word_insert(d, node) ==
  IF deref_mut(d.heap, node) = {} THEN Panic(d.heap)
  ELSE Returned(rc_drop(insert_parent(rc_clone(d.heap, d.ptr, 1), node, d.ptr), node),
                d.ptr)

\* Dawg::word, the closure for a Letter: array::from_fn calls
\* has_idx_unchecked for every index of Children
word_link(h, node, letter) ==
  IF \E i \in Slots : has_idx_unchecked(letter, i) = {} THEN Panic(h)
  ELSE word_insert(
         from_args(rc_clone(rc_downgrade(h, h[node].node.end_node), node,
                            Cardinality({ i \in Slots : TRUE \in has_idx_unchecked(letter, i) })),
                   h[node].node.end_node,
                   [ i \in { j \in Slots : TRUE \in has_idx_unchecked(letter, j) } |-> node ]),
         node)

word_build(r, letter) ==
  IF r.panic THEN r ELSE word_link(r.heap, CHOOSE p \in r.ptr : TRUE, letter)

\* Dawg::word
RECURSIVE Dawg_word(_, _)
Dawg_word(h, w) ==
  IF w = << >> THEN add_end_of(Dawg_empty(h))
  ELSE word_build(Dawg_word(h, Tail(w)), Head(w))

\* Node::clear through the handle: every child is taken and dropped
Node_clear(h, p) ==
  drop_children([ h EXCEPT ![p].node.children = NoSlots ], h[p].node.children, 0)

\* the handles but the i-th
Without(s, i) == SubSeq(s, 1, i - 1) \o SubSeq(s, i + 1, Len(s))

InitDawg ==
  /\ word \in TrieWords
  /\ a = empty
  /\ b = empty
  /\ op = "none"
  /\ res = empty
  /\ flag = FALSE
  /\ text = << >>
  /\ outcome = NoOutcome
  /\ NoIterator
  /\ NoCall
  /\ NoHeap
  /\ NoFile

\* what the operations on Dawgs leave alone
DawgFrame ==
  UNCHANGED << a, b, res, flag, it, stack, prefix, out, text, word, outcome, frames, result, file, path >>

\* let root = Dawg::empty()
DawgEmpty ==
  /\ op = "none"
  /\ op' = "empty"
  /\ heap' = Dawg_empty(heap).heap
  /\ handles' = << [ strong |-> TRUE, ptr |-> Dawg_empty(heap).ptr ] >>
  /\ UNCHANGED << mutated, panicked, file, path >>
  /\ DawgFrame

\* let root = Dawg::word(word)
DawgWord ==
  /\ op = "none"
  /\ op' = "word"
  /\ heap' = Dawg_word(heap, word).heap
  /\ panicked' = Dawg_word(heap, word).panic
  /\ handles' = [ k \in 1..Cardinality(Dawg_word(heap, word).ptr) |->
                    [ strong |-> TRUE, ptr |-> CHOOSE p \in Dawg_word(heap, word).ptr : TRUE ] ]
  /\ UNCHANGED << mutated, file, path >>
  /\ DawgFrame

\* handle.clone(), of a Dawg or of a WeakDawg
Clone ==
  /\ ~panicked
  /\ Len(handles) < MaxHandles
  /\ \E i \in DOMAIN handles :
       /\ heap' = IF handles[i].strong THEN rc_clone(heap, handles[i].ptr, 1)
                  ELSE rc_downgrade(heap, handles[i].ptr)
       /\ handles' = Append(handles, handles[i])
  /\ op' = "clone"
  /\ UNCHANGED << mutated, panicked, file, path >>
  /\ DawgFrame

\* Dawg::downgrade
Downgrade ==
  /\ ~panicked
  /\ Len(handles) < MaxHandles
  /\ \E i \in DOMAIN handles :
       /\ handles[i].strong
       /\ heap' = rc_downgrade(heap, handles[i].ptr)
       /\ handles' = Append(handles, [ strong |-> FALSE, ptr |-> handles[i].ptr ])
  /\ op' = "downgrade"
  /\ UNCHANGED << mutated, panicked, file, path >>
  /\ DawgFrame

\* drop(handle)
Drop ==
  /\ ~panicked
  /\ \E i \in DOMAIN handles :
       /\ heap' = IF handles[i].strong THEN rc_drop(heap, handles[i].ptr)
                  ELSE weak_drop(heap, handles[i].ptr)
       /\ handles' = Without(handles, i)
  /\ op' = "drop"
  /\ UNCHANGED << mutated, panicked, file, path >>
  /\ DawgFrame

\* handle.clear(): Node::clear on the &mut Node of deref_mut
Clear ==
  /\ ~panicked
  /\ \E i \in DOMAIN handles :
       /\ handles[i].strong
       /\ mutated' = {i}
       /\ panicked' = (deref_mut(heap, handles[i].ptr) = {})
       /\ heap' = IF deref_mut(heap, handles[i].ptr) = {} THEN heap
                  ELSE Node_clear(heap, handles[i].ptr)
  /\ op' = "clear"
  /\ UNCHANGED << handles, file, path >>
  /\ DawgFrame

\* Dawg::is_empty: a slot that holds no child counts as not empty
RECURSIVE Dawg_is_empty(_, _)
Dawg_is_empty(h, p) ==
  /\ EndSlot \notin DOMAIN h[p].node.children
  /\ \A i \in 0..(EndSlot - 1) :
       /\ i \in DOMAIN h[p].node.children
       /\ Dawg_is_empty(h, h[p].node.children[i])

\* Dawg::is_leaf
Dawg_is_leaf(h, p) == \A i \in Slots : i \notin DOMAIN h[p].node.children

\* handle.is_empty()
IsEmpty ==
  /\ ~panicked
  /\ \E i \in DOMAIN handles :
       /\ handles[i].strong
       /\ flag' = Dawg_is_empty(heap, handles[i].ptr)
  /\ op' = "is_empty"
  /\ UNCHANGED << a, b, res, it, stack, prefix, out, text, word, outcome, frames, result,
                  heap, handles, mutated, panicked, file, path >>

\* Dawg::ptr_eq: eq_with under Rc::ptr_eq, slot by slot over the 27 children
ptr_eq(h, p, q) == h[p].node.children = h[q].node.children

\* the first child there is: self.children.iter().find_map(|x| x.as_ref())
first_child(h, p) ==
  { h[p].node.children[i] : i \in { j \in DOMAIN h[p].node.children :
                                       \A k \in DOMAIN h[p].node.children : j <= k } }

\* Dawg::find_eq: the parents of the first child that upgrade and are ptr_eq
\* to self; the hash set hands them out in no fixed order, and the first
\* found is returned
find_eq(h, p) ==
  { q \in UNION { h[c].node.parents : c \in first_child(h, p) } :
      h[q].strong > 0 /\ ptr_eq(h, p, q) }

\* *child = node: the Dawg found takes the slot, the child it held is
\* dropped
merge_assign(h, self, i, node) ==
  rc_drop([ rc_clone(h, node, 1) EXCEPT ![self].node.children[i] = node ],
          h[self].node.children[i])

\* the for loop of Dawg::merge from the slot i on: the heaps it may leave
RECURSIVE merge_loop(_, _, _)
merge_loop(h, self, i) ==
  IF i > EndSlot THEN { h }
  ELSE IF i \notin DOMAIN h[self].node.children
            \/ find_eq(h, h[self].node.children[i]) = {}
    THEN merge_loop(h, self, i + 1)
  ELSE UNION { merge_loop(merge_assign(h, self, i, node), self, i + 1) :
                 node \in find_eq(h, h[self].node.children[i]) }

\* Dawg::merge: self.children.iter_mut() goes through deref_mut
merge(h, self) == IF deref_mut(h, self) = {} THEN {} ELSE merge_loop(h, self, 0)

\* the strings the graph under p accepts
RECURSIVE DawgAccepts(_, _)
DawgAccepts(h, p) ==
  { << >> : i \in DOMAIN h[p].node.children \cap {EndSlot} }
    \cup UNION { { << CharRange[i + 1] >> \o s : s \in DawgAccepts(h, h[p].node.children[i]) } :
                   i \in DOMAIN h[p].node.children \ {EndSlot} }

\* handle.merge(); result keeps the strings accepted before the call
Merge ==
  /\ ~panicked
  /\ \E i \in DOMAIN handles :
       /\ handles[i].strong
       /\ mutated' = {i}
       /\ panicked' = (merge(heap, handles[i].ptr) = {})
       /\ heap' \in IF merge(heap, handles[i].ptr) = {} THEN { heap }
                     ELSE merge(heap, handles[i].ptr)
       /\ result' = DawgAccepts(heap, handles[i].ptr)
  /\ op' = "merge"
  /\ UNCHANGED << a, b, res, flag, it, stack, prefix, out, text, word, outcome, frames,
                  handles, file, path >>

NextDawg == DawgEmpty \/ DawgWord \/ Clone \/ Downgrade \/ Drop \/ Clear \/ IsEmpty \/ Merge

SpecDawg == InitDawg /\ [][NextDawg]_vars

\* the Dawg node p has the children and the end of the tree node t, all the
\* way down
RECURSIVE DawgMatches(_, _)
DawgMatches(p, t) ==
  /\ heap[p].alive
  /\ (EndSlot \in DOMAIN heap[p].node.children) <=> is_end(t)
  /\ DOMAIN heap[p].node.children \ {EndSlot} = DOMAIN t.children
  /\ \A i \in DOMAIN t.children : DawgMatches(heap[p].node.children[i], t.children[i])

\* C17: Dawg::word(w) completes, and its graph has a child wherever the tree
\* Trie::word(w) has one and a filled terminal slot wherever the tree node
\* is_end, so that both accept the same strings.
C17_DawgWordMatchesTrie ==
  op = "word" =>
    /\ ~panicked
    /\ \A k \in DOMAIN handles : DawgMatches(handles[k].ptr, Trie_word(word))

\* C18: a mutation through a handle panics exactly when another strong
\* pointer to the node exists; weak pointers do not prevent it.
C18_MutationNeedsSoleOwner ==
  op = "clear" =>
    \A i \in mutated : panicked <=> heap[handles[i].ptr].strong > 1

\* the nodes of the graph under p
RECURSIVE Reach(_)
Reach(p) ==
  {p} \cup UNION { Reach(heap[p].node.children[i]) : i \in DOMAIN heap[p].node.children }

\* the node the graph under p reaches along the first symbol of each Letter
RECURSIVE NodeAfter(_, _)
NodeAfter(p, w) ==
  IF w = << >> \/ DOMAIN heap[p].node.children \cap Head(w) = {} THEN p
  ELSE NodeAfter(heap[p].node.children[CHOOSE i \in DOMAIN heap[p].node.children \cap Head(w) : TRUE],
                 Tail(w))

\* C19: every node of a graph of Dawg::empty or Dawg::word has the same
\* end_node, that terminal node is alive while a Dawg of the root is held,
\* and the node after a complete word has it in its terminal slot.
C19_SharedLiveTerminal ==
  \A k \in DOMAIN handles :
    (handles[k].strong /\ ~panicked) =>
      /\ \A p \in Reach(handles[k].ptr) :
           heap[p].node.end_node = heap[handles[k].ptr].node.end_node
      /\ heap[heap[handles[k].ptr].node.end_node].alive
      /\ op = "word" =>
           heap[NodeAfter(handles[k].ptr, word)].node.children[EndSlot] =
             heap[handles[k].ptr].node.end_node

(***************************************************************************)
(* The binary file of a Trie.  A File is the sequence of its bytes; a u32  *)
(* is a number below 2^32.                                                 *)
(***************************************************************************)
\* 1 << i
shl(i) == 2 ^ i

\* node & (1 << i) > 0
bit(node, i) == (node \div shl(i)) % 2 = 1

\* u32::to_le_bytes
to_le_bytes(node) ==
  << node % 256, (node \div shl(8)) % 256, (node \div shl(16)) % 256,
     (node \div shl(24)) % 256 >>

\* u32::to_be_bytes
to_be_bytes(node) ==
  << (node \div shl(24)) % 256, (node \div shl(16)) % 256, (node \div shl(8)) % 256,
     node % 256 >>

\* u32::from_be_bytes
from_be_bytes(buf) == buf[1] * shl(24) + buf[2] * shl(16) + buf[3] * shl(8) + buf[4]

\* save_trie, first loop: node |= 1 << i for each child there is, from i on
RECURSIVE save_mask(_, _, _)
save_mask(self, node, i) ==
  IF i >= NumSymbols THEN node
  ELSE IF i \in DOMAIN self.children /\ ~bit(node, i)
    THEN save_mask(self, node + shl(i), i + 1)
  ELSE save_mask(self, node, i + 1)

RECURSIVE save_trie(_, _)
RECURSIVE save_children(_, _, _)

\* save_trie, second loop: each child there is saves itself, from i on
save_children(self, f, i) ==
  IF i >= NumSymbols THEN f
  ELSE IF i \in DOMAIN self.children
    THEN save_children(self, save_trie(self.children[i], f), i + 1)
  ELSE save_children(self, f, i + 1)

\* Trie::save_trie: the File after the writes
save_trie(self, f) ==
  save_children(self,
                f \o to_be_bytes(save_mask(self, IF self.is_end THEN shl(26) ELSE 0, 0)),
                0)

RECURSIVE load_trie(_, _)
RECURSIVE load_children(_, _, _, _)

\* the child slot i after c.as_mut().unwrap().load_trie(file): the child has
\* been read in place, and on an error the ? returns it
load_child(self, node, i, r) ==
  IF ~r.ok
    THEN [ trie |-> set_child(self, from_index(i), { r.trie }), file |-> r.file,
           ok |-> FALSE ]
  ELSE load_children(set_child(self, from_index(i), { r.trie }), node, r.file, i + 1)

\* load_trie, the loop over the slots from i on
load_children(self, node, f, i) ==
  IF i >= NumSymbols THEN [ trie |-> self, file |-> f, ok |-> TRUE ]
  ELSE IF bit(node, i)
    THEN load_child(self, node, i,
                    load_trie(IF i \in DOMAIN self.children THEN self.children[i] ELSE empty,
                              f))
  ELSE load_children(self, node, f, i + 1)

\* Trie::load_trie: the Trie, the File and whether the io::Result is Ok;
\* read_exact fails on fewer than four bytes
load_trie(self, f) ==
  IF Len(f) < 4 THEN [ trie |-> self, file |-> << >>, ok |-> FALSE ]
  ELSE load_children(IF bit(from_be_bytes(SubSeq(f, 1, 4)), 26) THEN set_end(self, TRUE)
                     ELSE self,
                     from_be_bytes(SubSeq(f, 1, 4)), SubSeq(f, 5, Len(f)), 0)

InitFile ==
  /\ a \in Tries
  /\ b = empty
  /\ op = "none"
  /\ res = empty
  /\ flag = FALSE
  /\ NoIterator
  /\ NoPattern
  /\ NoCall
  /\ NoHeap
  /\ NoFile

\* what the file operations leave alone
FileFrame ==
  UNCHANGED << a, b, it, stack, prefix, out, text, word, outcome, frames, result,
               heap, handles, mutated, panicked, path >>

\* a.save_trie(&mut file) on a new File, which is then opened again
SaveTrie ==
  /\ op = "none"
  /\ op' = "save"
  /\ file' = save_trie(a, file)
  /\ UNCHANGED << res, flag, path >>
  /\ FileFrame

\* the File loses its last byte
Truncate ==
  /\ op = "save"
  /\ op' = "truncate"
  /\ file' = SubSeq(file, 1, Len(file) - 1)
  /\ UNCHANGED << res, flag, path >>
  /\ FileFrame

\* let mut res = Trie::empty(); res.load_trie(&mut file)
LoadTrie ==
  /\ op \in { "save", "truncate" }
  /\ op' = IF op = "save" THEN "load" ELSE "load_truncated"
  /\ res' = load_trie(empty, file).trie
  /\ flag' = load_trie(empty, file).ok
  /\ file' = load_trie(empty, file).file
  /\ FileFrame

NextFile == SaveTrie \/ Truncate \/ LoadTrie

SpecFile == InitFile /\ [][NextFile]_vars

\* the nodes of a tree in depth-first pre-order, the children in increasing
\* order of their symbols
RECURSIVE PreOrder(_)
RECURSIVE PreOrderFrom(_, _)
PreOrderFrom(n, i) ==
  IF i >= NumSymbols THEN << >>
  ELSE IF i \in DOMAIN n.children
    THEN PreOrder(n.children[i]) \o PreOrderFrom(n, i + 1)
  ELSE PreOrderFrom(n, i + 1)

PreOrder(n) == << n >> \o PreOrderFrom(n, 0)

\* the number the k-th four bytes of f are in big-endian order
RecordAt(f, k) ==
  f[4 * k - 3] * 16777216 + f[4 * k - 2] * 65536 + f[4 * k - 1] * 256 + f[4 * k]

\* C20: save_trie writes one 4-byte big-endian record per node in depth-first
\* pre-order (bit 26 the accepting flag, bit i the presence of child i, no
\* other bit), and load_trie of these bytes into an empty Trie gives a Trie
\* equal to the one saved.
C20_SaveLoadRoundTrips ==
  /\ op = "save" =>
       /\ Len(file) = 4 * Len(PreOrder(a))
       /\ \A k \in 1..Len(PreOrder(a)) :
            /\ bit(RecordAt(file, k), 26) <=> PreOrder(a)[k].is_end
            /\ \A i \in 0..25 :
                 bit(RecordAt(file, k), i) <=> i \in DOMAIN PreOrder(a)[k].children
            /\ RecordAt(file, k) < 134217728
  /\ op = "load" => (flag /\ res = a /\ file = << >>)

\* a tree of MaxNodes nodes with an accepting inner node and a node of two
\* children has been saved and loaded
C20_Witness ==
  /\ op = "load"
  /\ res = a
  /\ Size(a) = MaxNodes
  /\ \E k \in 1..Len(PreOrder(a)) : PreOrder(a)[k].is_end /\ ~is_leaf(PreOrder(a)[k])
  /\ \E k \in 1..Len(PreOrder(a)) : Cardinality(DOMAIN PreOrder(a)[k].children) = 2
  /\ \E k \in 1..Len(PreOrder(a)) : DOMAIN PreOrder(a)[k].children = {1}

(***************************************************************************)
(* The entry points that read a pattern text or a File.  A .txt File is    *)
(* the sequence of its lines.  The outcome of an entry point is Parsed(t)  *)
(* for a Trie t returned (inside Ok where it returns a Result), Failed for *)
(* an Err returned, and Panicked.                                          *)
(***************************************************************************)
MaxLineLen == 2

PatternLines == UNION { [ 1..n -> TextChars ] : n \in 0..MaxLineLen }

Paths == [ ext : { "tre", "txt", "dat" }, found : BOOLEAN ]

\* Self::word(word.try_into().unwrap())
str_unwrap(parsed) ==
  IF parsed.ok THEN Parsed(Trie_word(parsed.val)) ELSE Panicked

\* Trie::str on a text
Trie_from_str(s) == str_unwrap(mod_word_from_str(s))

or_built(self, built) ==
  IF built.panic THEN Panicked ELSE Parsed(or_assign(self, built.val))

\* Trie::add_assign: self.or_assign(&Trie::str(word))
add_assign(self, line) == or_built(self, Trie_from_str(line))

RECURSIVE load_words(_, _)

load_words_turn(added, lines) ==
  IF added.panic THEN Panicked ELSE load_words(added.val, lines)

\* Trie::load_words: every line is added
load_words(self, lines) ==
  IF lines = << >> THEN Parsed(self)
  ELSE load_words_turn(add_assign(self, Head(lines)), Tail(lines))

\* the io::Result of load_trie
load_trie_result(r) == IF r.ok THEN Parsed(r.trie) ELSE Failed(<< >>)

\* Trie::load: File::open(path)?, then the match on the extension; the value
\* of an Ok is the Trie loaded into
load(self, p, f) ==
  IF ~p.found THEN Failed(<< >>)
  ELSE IF p.ext = "tre" THEN load_trie_result(load_trie(self, f))
  ELSE IF p.ext = "txt" THEN load_words(self, f)
  ELSE Failed(<< >>)

\* Trie::file
Trie_file(p, f) == load(empty, p, f)

\* .ok().unwrap_or_else(Self::empty)
ok_unwrap_or_empty(r) ==
  IF r.panic THEN Panicked ELSE IF r.ok THEN Parsed(r.val) ELSE Parsed(empty)

\* impl From<&Path> for Trie
from_path(p, f) == ok_unwrap_or_empty(Trie_file(p, f))

\* the Files a Path may name: a saved Trie or a beginning of one, or a text
\* of one line
FilesOf(p, t, s) ==
  IF p.ext = "tre"
    THEN { SubSeq(save_trie(t, << >>), 1, k) : k \in 0..Len(save_trie(t, << >>)) }
  ELSE { << s >> }

InitEntry ==
  /\ a \in TriesBySize[2]
  /\ text \in PatternLines
  /\ path \in Paths
  /\ file \in FilesOf(path, a, text)
  /\ b = empty
  /\ op = "none"
  /\ res = empty
  /\ flag = FALSE
  /\ word = << >>
  /\ outcome = NoOutcome
  /\ NoIterator
  /\ NoCall
  /\ NoHeap

\* what the entry points leave alone
EntryFrame ==
  UNCHANGED << a, b, res, flag, it, stack, prefix, out, text, word, frames, result,
               heap, handles, mutated, panicked, file, path >>

\* Trie::str(text)
EntryStr ==
  /\ op = "none"
  /\ op' = "entry_str"
  /\ outcome' = Trie_from_str(text)
  /\ EntryFrame

\* Trie::file(path)
EntryFile ==
  /\ op = "none"
  /\ op' = "entry_file"
  /\ outcome' = Trie_file(path, file)
  /\ EntryFrame

\* Trie::from(path)
EntryFromPath ==
  /\ op = "none"
  /\ op' = "entry_from_path"
  /\ outcome' = from_path(path, file)
  /\ EntryFrame

NextEntry == EntryStr \/ EntryFile \/ EntryFromPath

SpecEntry == InitEntry /\ [][NextEntry]_vars

\* opening or reading the File at the Path fails: it cannot be opened, its
\* extension is not supported, its record is cut short, or a line of it is
\* not a pattern
LoadFails ==
  \/ ~path.found
  \/ path.ext \notin { "tre", "txt" }
  \/ path.ext = "tre" /\ ~load_trie(empty, file).ok
  \/ path.ext = "txt" /\ \E k \in 1..Len(file) : ~mod_word_from_str(file[k]).ok

\* C21: a bad pattern text or a failing load reaches the caller of Trie::str,
\* Trie::file and Trie::from(path) as an error: neither a Trie nor a panic.
C21_FailuresAreReturned ==
  /\ (op = "entry_str" /\ ~mod_word_from_str(text).ok)
       => (~outcome.ok /\ ~outcome.panic)
  /\ (op \in { "entry_file", "entry_from_path" } /\ LoadFails)
       => (~outcome.ok /\ ~outcome.panic)

\* C22: enumerating the strings of a Trie to exhaustion, and a membership
\* query on it, leave the Trie accepting the strings it accepted before.
C22_ReadsLeaveUnchanged ==
  /\ op = "next_none" => Accepts(res) = Accepts(Trie_str(word))
  /\ op = "str_has_all" => Accepts(res) = Accepts(Trie_str(word))
  /\ op = "add_has_all" => Accepts(res) = Accepts(add(a, word))

(***************************************************************************)
(* The Set operations of letter::Letter on one character.  A character is  *)
(* given with its code point; the subtraction of into_index is a usize     *)
(* subtraction, which panics on a negative difference in a build with      *)
(* overflow checks and wraps in a build without them.                      *)
(***************************************************************************)
\* the number of usize values (2^64 in the source, a power of two TLC can
\* hold here)
UsizeRange == 1073741824

\* the characters the operations are given: the alphabet, one character
\* below 'a' and one above 'z'
ItemChars == { from_index(i) : i \in all } \cup { "5", "{" }

\* c as usize
CodePoint(c) ==
  IF c = "5" THEN 53 ELSE IF c = "{" THEN 123 ELSE 97 + IndexOf[c]

\* letter::into_index: the Option of the index, empty for the panic
letter_into_index(c, checks) ==
  IF CodePoint(c) >= 97 THEN { CodePoint(c) - 97 }
  ELSE IF checks THEN {}
  ELSE { (CodePoint(c) - 97) % UsizeRange }

\* self.0[i] of the [bool; 26]: the Option of the flag, empty for the panic
\* of an index out of bounds
flag_at(letter, i) == IF i \in all THEN { i \in letter } ELSE {}

\* Letter::has_idx
has_idx(letter, i) == i \in all /\ TRUE \in flag_at(letter, i)

\* the outcome of an operation: the Letter left and the bool returned
Done(letter, ret) == [ val |-> letter, ret |-> ret, panic |-> FALSE ]

\* the operation panicked
Aborted == [ val |-> {}, ret |-> FALSE, panic |-> TRUE ]

contains_at(letter, idx) ==
  IF idx = {} THEN Aborted
  ELSE Done(letter, has_idx(letter, CHOOSE i \in idx : TRUE))

\* Set::contains for Letter
contains(letter, c, checks) == contains_at(letter, letter_into_index(c, checks))

store_at(letter, idx, prev, value) ==
  IF prev = {} THEN Aborted
  ELSE Done(IF value THEN letter \cup idx ELSE letter \ idx, TRUE \in prev)

insert_at(letter, idx) ==
  IF idx = {} THEN Aborted
  ELSE store_at(letter, idx, flag_at(letter, CHOOSE i \in idx : TRUE), TRUE)

\* Set::insert for Letter
insert(letter, c, checks) == insert_at(letter, letter_into_index(c, checks))

delete_at(letter, idx) ==
  IF idx = {} THEN Aborted
  ELSE store_at(letter, idx, flag_at(letter, CHOOSE i \in idx : TRUE), FALSE)

\* Set::delete for Letter
delete(letter, c, checks) == delete_at(letter, letter_into_index(c, checks))

\* word holds the one Letter, text the one character and result the outcome
InitLetter ==
  /\ word \in { << l >> : l \in Letters }
  /\ text \in { << c >> : c \in ItemChars }
  /\ a = empty
  /\ b = empty
  /\ op = "none"
  /\ res = empty
  /\ flag = FALSE
  /\ outcome = NoOutcome
  /\ NoIterator
  /\ NoCall
  /\ NoHeap
  /\ NoFile

LetterFrame ==
  UNCHANGED << a, b, res, flag, it, stack, prefix, out, text, word, frames, outcome,
               heap, handles, mutated, panicked, file, path >>

\* letter.contains(&c), in either build
Contains ==
  /\ op = "none"
  /\ op' = "contains"
  /\ \E checks \in BOOLEAN : result' = { contains(word[1], text[1], checks) }
  /\ LetterFrame

\* letter.insert(c), in either build
Insert ==
  /\ op = "none"
  /\ op' = "insert"
  /\ \E checks \in BOOLEAN : result' = { insert(word[1], text[1], checks) }
  /\ LetterFrame

\* letter.delete(&c), in either build
Delete ==
  /\ op = "none"
  /\ op' = "delete"
  /\ \E checks \in BOOLEAN : result' = { delete(word[1], text[1], checks) }
  /\ LetterFrame

\* self.0[i] read by has_idx_unchecked, for the index into_index gave
unchecked_at(letter, idx, f) ==
  IF idx = {} \/ f = {} THEN Aborted ELSE Done(letter, TRUE \in f)

\* word::Letter::has_unchecked: self.has_idx_unchecked(into_index(c))
has_unchecked(letter, c, checks) ==
  unchecked_at(letter, letter_into_index(c, checks),
               UNION { flag_at(letter, i) : i \in letter_into_index(c, checks) })

\* letter.has_unchecked(c), in either build
HasUnchecked ==
  /\ op = "none"
  /\ op' = "has_unchecked"
  /\ \E checks \in BOOLEAN : result' = { has_unchecked(word[1], text[1], checks) }
  /\ LetterFrame

NextLetter == Contains \/ Insert \/ Delete \/ HasUnchecked

SpecLetter == InitLetter /\ [][NextLetter]_vars

\* C23: no Set operation of Letter fails; on a character outside 'a'..'z'
\* contains returns false and insert and delete leave the Letter as it was.
C23_LetterOpsNeverFail ==
  op \in { "contains", "insert", "delete" } =>
    \A r \in result :
      /\ ~r.panic
      /\ text[1] \notin Lowercase =>
           /\ r.val = word[1]
           /\ (op = "contains" => ~r.ret)

\* C26: every call of has_idx_unchecked passes an index within the 26 flags
\* of the Letter, so that the access never leaves the array.
C26_UncheckedIndexInRange ==
  op = "has_unchecked" =>
    /\ \A checks \in BOOLEAN : \A i \in letter_into_index(text[1], checks) : i \in all
    /\ \A r \in result : CodePoint(text[1]) >= 97 => ~r.panic

\* the Dawg node p accepts nothing: it is not accepting and each child it
\* has accepts nothing
RECURSIVE DawgAcceptsNothing(_)
DawgAcceptsNothing(p) ==
  /\ EndSlot \notin DOMAIN heap[p].node.children
  /\ \A i \in DOMAIN heap[p].node.children : DawgAcceptsNothing(heap[p].node.children[i])

\* C24: is_empty() is true iff the node is not accepting and every child it
\* has is empty; empty() has no children and is a leaf and empty, as a
\* generic node (and tree) and as a Dawg.
C24_IsEmptyMeansNoStrings ==
  /\ is_leaf(empty) /\ is_empty(empty)
  /\ op = "is_empty" =>
       \A k \in DOMAIN handles :
         handles[k].strong =>
           /\ flag <=> DawgAcceptsNothing(handles[k].ptr)
           /\ DOMAIN heap[handles[k].ptr].node.children = {} =>
                (Dawg_is_leaf(heap, handles[k].ptr) /\ flag)

\* C28: merge(root) of a root held by one Dawg completes; afterwards two
\* nodes under root with pointer-identical child slots are one node (the
\* descendants having been merged first), and root accepts what it did.
C28_MergeLeavesNoTwins ==
  op = "merge" =>
    \A i \in mutated :
      heap[handles[i].ptr].strong = 1 =>
        /\ ~panicked
        /\ \A p, q \in Reach(handles[i].ptr) : ptr_eq(heap, p, q) => p = q
        /\ DawgAccepts(heap, handles[i].ptr) = result

\* the Dawgs that hold the node q: the strong handles and the child slots
\* of the live nodes
Holders(q) ==
  Cardinality({ k \in DOMAIN handles : handles[k].strong /\ handles[k].ptr = q })
    + Cardinality({ pi \in (1..Len(heap)) \X Slots :
                      /\ heap[pi[1]].alive
                      /\ pi[2] \in DOMAIN heap[pi[1]].node.children
                      /\ heap[pi[1]].node.children[pi[2]] = q })

Value(v) == [ panic |-> FALSE, val |-> v ]

NoValue == [ panic |-> TRUE, val |-> << >> ]

\* trie_paths::range_bits: (1 << e+1) - (1 << s), a u32 subtraction that
\* underflows for s > e + 1
range_bits(s, e, checks) ==
  IF s <= e + 1 THEN Value(s..e)
  ELSE IF checks THEN NoValue
  ELSE Value({ i \in all : i = e + 1 \/ i >= s })

\* trie_paths::index_bits
index_bits(s, e, checks) == range_bits(into_index(s), into_index(e), checks)

RECURSIVE char_set_loop(_, _, _, _)

\* char_set |= index_bits(..); prev = next
char_set_or(rest_chars, next, char_set, bits, checks) ==
  IF bits.panic THEN NoValue
  ELSE char_set_loop(rest_chars, next, char_set \cup bits.val, checks)

\* the character after a dash, taken off the text: itself if alphabetic, else 'z'
dash_next(rest_chars) ==
  IF rest_chars # << >> /\ Head(rest_chars) \in Lowercase THEN Head(rest_chars) ELSE LastChar

dash_rest(rest_chars) == IF rest_chars = << >> THEN rest_chars ELSE Tail(rest_chars)

\* the while loop of char_set_from_group
char_set_loop(rest_chars, prev, char_set, checks) ==
  IF rest_chars = << >> THEN Value(char_set)
  ELSE IF Head(rest_chars) = "-"
    THEN char_set_or(dash_rest(Tail(rest_chars)), dash_next(Tail(rest_chars)), char_set,
                     index_bits(prev, dash_next(Tail(rest_chars)), checks), checks)
  ELSE IF Head(rest_chars) \in Lowercase
    THEN char_set_or(Tail(rest_chars), Head(rest_chars), char_set,
                     index_bits(Head(rest_chars), Head(rest_chars), checks), checks)
  ELSE char_set_loop(Tail(rest_chars), prev, all, checks)

\* trie_paths::char_set_from_group
char_set_from_group(group, checks) == char_set_loop(group, "a", {}, checks)

\* tail.split_once("]").unwrap_or((tail, ""))
split_once(tail, closes) ==
  IF closes = {} THEN [ panic |-> FALSE, head |-> tail, tail |-> << >> ]
  ELSE [ panic |-> FALSE,
         head |-> SubSeq(tail, 1, (CHOOSE k \in closes : \A j \in closes : k <= j) - 1),
         tail |-> SubSeq(tail, (CHOOSE k \in closes : \A j \in closes : k <= j) + 1,
                         Len(tail)) ]

\* trie_paths::split_path: path.split_at(1) panics on the empty text
split_path(p) ==
  IF p = << >> THEN [ panic |-> TRUE, head |-> << >>, tail |-> << >> ]
  ELSE IF Head(p) # "[" THEN [ panic |-> FALSE, head |-> << Head(p) >>, tail |-> Tail(p) ]
  ELSE split_once(Tail(p), { k \in 1..Len(Tail(p)) : Tail(p)[k] = "]" })

RECURSIVE trie_word(_, _)

\* array::from_fn: Self::word(tail) is called for every set bit
word_children(w, char_set, child) ==
  IF child.panic THEN NoValue
  ELSE Value(MkNode(w = << >>, [ i \in char_set |-> child.val ]))

word_char_set(w, tail, cset, checks) ==
  IF cset.panic THEN NoValue
  ELSE IF cset.val = {} THEN Value(MkNode(w = << >>, NoChildren))
  ELSE word_children(w, cset.val, trie_word(tail, checks))

word_split(w, sp, checks) ==
  IF sp.panic THEN NoValue
  ELSE word_char_set(w, sp.tail, char_set_from_group(sp.head, checks), checks)

\* trie::Trie::word
trie_word(w, checks) == word_split(w, split_path(w), checks)

\* the outcome of Trie::word
word_outcome(r) == IF r.panic THEN Panicked ELSE Parsed(r.val)

RECURSIVE TrieIter_next(_, _, _)

\* the for loop found the child u: it is taken out of trie, and trie and
\* the child are pushed
iter_descend(string, rest, trie, u, checks) ==
  TrieIter_next(Append(string, from_index(u)),
                rest \o << [ trie EXCEPT !.children =
                               [ j \in DOMAIN trie.children \ {u} |-> trie.children[j] ] ],
                           trie.children[u] >>,
                checks)

\* self.0.truncate(last - 1); self.next()
iter_leave(string, rest, checks) ==
  IF string = << >>
    THEN IF checks THEN [ panic |-> TRUE, item |-> {}, string |-> string, stack |-> rest ]
         ELSE TrieIter_next(string, rest, checks)
  ELSE TrieIter_next(SubSeq(string, 1, Len(string) - 1), rest, checks)

iter_popped(string, rest, trie, checks) ==
  IF trie.is_end
    THEN [ panic |-> FALSE, item |-> { string }, string |-> string,
           stack |-> Append(rest, set_end(trie, FALSE)) ]
  ELSE IF DOMAIN trie.children # {}
    THEN iter_descend(string, rest, trie,
                      CHOOSE u \in DOMAIN trie.children :
                        \A j \in DOMAIN trie.children : u <= j,
                      checks)
  ELSE iter_leave(string, rest, checks)

\* TrieIter::next: the Option of the item, the String and the Vec<Trie>
TrieIter_next(string, stk, checks) ==
  IF stk = << >> THEN [ panic |-> FALSE, item |-> {}, string |-> string, stack |-> stk ]
  ELSE iter_popped(string, SubSeq(stk, 1, Len(stk) - 1), stk[Len(stk)], checks)

InitTrieMod ==
  /\ text \in PatternLines
  /\ word = << >>
  /\ outcome = NoOutcome
  /\ a = empty
  /\ b = empty
  /\ op = "none"
  /\ res = empty
  /\ flag = FALSE
  /\ NoIterator
  /\ NoCall
  /\ NoHeap
  /\ NoFile

\* Trie::word(text), in either build
TrieModWord ==
  /\ op = "none"
  /\ op' = "word"
  /\ \E checks \in BOOLEAN : outcome' = word_outcome(trie_word(text, checks))
  /\ UNCHANGED << a, b, res, flag, it, stack, prefix, out, text, word, frames, result,
                  heap, handles, mutated, panicked, file, path >>

\* (&trie).into_iter() on the trie returned
IntoIter ==
  /\ op = "word"
  /\ outcome.ok
  /\ it = "none"
  /\ it' = "live"
  /\ stack' = << outcome.val >>
  /\ prefix' = << >>
  /\ out' = << >>
  /\ UNCHANGED << a, b, op, res, flag, text, word, outcome, frames, result,
                  heap, handles, mutated, panicked, file, path >>

\* one call of TrieIter::next, in either build, up to the call that returns
\* None
IterNext ==
  /\ it = "live"
  /\ \E checks \in BOOLEAN :
       /\ stack' = TrieIter_next(prefix, stack, checks).stack
       /\ prefix' = TrieIter_next(prefix, stack, checks).string
       /\ it' = IF TrieIter_next(prefix, stack, checks).panic THEN "panicked"
                ELSE IF TrieIter_next(prefix, stack, checks).item = {} THEN "done"
                ELSE "live"
       /\ out' = out \o [ k \in 1..Cardinality(TrieIter_next(prefix, stack, checks).item) |->
                            CHOOSE s \in TrieIter_next(prefix, stack, checks).item : TRUE ]
  /\ UNCHANGED << a, b, op, res, flag, text, word, outcome, frames, result,
                  heap, handles, mutated, panicked, file, path >>

NextTrieMod == TrieModWord \/ IntoIter \/ IterNext

SpecTrieMod == InitTrieMod /\ [][NextTrieMod]_vars

\* the strings a Word matches, over the alphabet of the patterns
TextMatches(w) ==
  { s \in [ 1..Len(w) -> { from_index(i) : i \in all } ] :
      \A k \in 1..Len(w) : into_index(s[k]) \in w[k] }

\* C25: Trie::word returns a trie for every pattern text, an accepting leaf
\* for the empty text, and TrieIter yields exactly the strings the pattern
\* matches and then None.
C25_TrieWordBuildsPattern ==
  /\ (op = "word" /\ IsWordText(text)) =>
       /\ outcome.ok
       /\ text = << >> => outcome.val = MkNode(TRUE, NoChildren)
  /\ (it # "none" /\ IsWordText(text)) =>
       /\ it # "panicked"
       /\ { out[k] : k \in 1..Len(out) } \subseteq TextMatches(WordDenotes(text))
       /\ it = "done" => { out[k] : k \in 1..Len(out) } = TextMatches(WordDenotes(text))

=============================================================================
